---- MODULE Spec2Model ----
(***************************************************************************)
(* Batch mark-detection, identity-tracking and percentile-statistics       *)
(* pipeline of p3_dot_analyzer (services/analysis_service.py).             *)
(*                                                                         *)
(* Coordinates, timestamps and temperatures are small integers.  Python    *)
(* floats hold every integer below 2^53 exactly, so sums, differences and  *)
(* products of them are exact; the two places where a float division       *)
(* rounds (the overlap ratio, the percent) are modelled explicitly: the    *)
(* ratio as an exact fraction whose comparisons agree with the rounded     *)
(* ones, and the percent by IEEE-754 binary64 arithmetic on bit strings.   *)
(***************************************************************************)
EXTENDS Integers, Sequences, FiniteSets, TLC

\* Python's None; an optional integer that is set is the 1-tuple of its value.
None == <<>>

Some(v) == <<v>>

Max(a, b) == IF a >= b THEN a ELSE b

Min(a, b) == IF a <= b THEN a ELSE b

Range(s) == {s[i] : i \in DOMAIN s}

(***************************************************************************)
(* IEEE-754 binary64 arithmetic for  int(cur / amax * 100).                *)
(* A float is [sig, exp] with value sig * 2^(-exp); sig is the 53-bit      *)
(* significand as three limbs <<17 bits, 18 bits, 18 bits>>, the first in  *)
(* [2^16, 2^17).  Every intermediate value stays below 2^31.               *)
(***************************************************************************)

\* Bits of a limb; a binary64 significand has 17 + 2 * LimbBits = 53 bits.
LimbBits == 18

RECURSIVE Pow2(_)
Pow2(e) == IF e = 0 THEN 1 ELSE 2 * Pow2(e - 1)

Limb == Pow2(LimbBits)

TopLimb == Pow2(LimbBits - 1)

\* sig + 1, limb by limb; the first limb reaches TopLimb when sig was all ones.
IncSig(sig) ==
    LET c3 == (sig[3] + 1) \div Limb
        c2 == (sig[2] + c3) \div Limb
    IN <<sig[1] + c2, (sig[2] + c3) % Limb, (sig[3] + 1) % Limb>>

\* Round an exact value, given as its leading 53 bits, the following (guard)
\* bit and whether anything non-zero follows that, to nearest, ties to even.
RoundNearestEven(kept, guard, sticky) ==
    IF guard = 1 /\ (sticky \/ kept[3] % 2 = 1) THEN IncSig(kept) ELSE kept

\* A rounded significand that carried out of its top bit is 2^53: renormalise.
Normalise(sig, exp) ==
    IF sig[1] >= TopLimb THEN [sig |-> <<TopLimb \div 2, 0, 0>>, exp |-> exp - 1]
    ELSE [sig |-> sig, exp |-> exp]

\* The least e >= 0 with c * 2^e >= d  (c >= 1).
RECURSIVE ScaleExp(_, _)
ScaleExp(c, d) == IF c >= d THEN 0 ELSE 1 + ScaleExp(2 * c, d)

\* The float c / d for integers c, d in 1 .. 2^12: after scaling c or d by
\* a power of two so that the quotient lies in [1, 2), long division gives
\* 16 + 18 + 18 quotient bits after the leading 1, then the guard bit; what
\* is left over is the sticky bit.
FloatDiv(c, d) ==
    LET e == ScaleExp(c, d)
        h == ScaleExp(d, c + 1) - 1
        n == c * Pow2(e)
        dd == IF h > 0 THEN d * Pow2(h) ELSE d
        r0 == n - dd
        m1 == TopLimb \div 2 + (r0 * (TopLimb \div 2)) \div dd
        r1 == (r0 * (TopLimb \div 2)) % dd
        m2 == (r1 * Limb) \div dd
        r2 == (r1 * Limb) % dd
        m3 == (r2 * Limb) \div dd
        r3 == (r2 * Limb) % dd
        guard == (2 * r3) \div dd
        r4 == (2 * r3) % dd
    IN Normalise(RoundNearestEven(<<m1, m2, m3>>, guard, r4 # 0),
                 e + 52 - (IF h > 0 THEN h ELSE 0))

\* The float f * 100.0: the exact product, limb by limb with carries, rounded
\* back to 53 bits (the product has 6 or 7 bits too many).
FloatMul100(f) ==
    LET p3 == (f.sig[3] * 100) % Limb
        c3 == (f.sig[3] * 100) \div Limb
        p2 == (f.sig[2] * 100 + c3) % Limb
        c2 == (f.sig[2] * 100 + c3) \div Limb
        p1 == f.sig[1] * 100 + c2
        drop == IF p1 >= Pow2(23) THEN 7 ELSE 6
        D == Pow2(drop)
        k1 == p1 \div D
        k2 == (p1 % D) * (Limb \div D) + p2 \div D
        k3 == (p2 % D) * (Limb \div D) + p3 \div D
        low == p3 % D
        guard == low \div (D \div 2)
        sticky == low % (D \div 2) # 0
    IN Normalise(RoundNearestEven(<<k1, k2, k3>>, guard, sticky), f.exp - drop)

\* int(f) for a float 0 < f < 2^17: the bits above the binary point, all of
\* which lie in the first limb.
FloatToInt(f) ==
    LET shift == f.exp - 2 * LimbBits
    IN IF shift >= LimbBits - 1 THEN 0 ELSE f.sig[1] \div Pow2(shift)

\* int(cur / amax * 100)   for cur >= 0 and amax > 0, both below 2^12.
FloatPct(cur, amax) ==
    IF cur = 0 THEN 0 ELSE FloatToInt(FloatMul100(FloatDiv(cur, amax)))

(***************************************************************************)
(* Geometry and area membership.                                           *)
(***************************************************************************)

\* _mark_bbox: (x1, y1, x2, y2)
MarkBbox(mark) ==
    << mark.center_x - mark.axis_a,
       mark.center_y - mark.axis_b,
       mark.center_x + mark.axis_a,
       mark.center_y + mark.axis_b >>

\* _bbox_overlap_ratio dividing by the area of its first argument.
BboxOverlapRatioOfFirst(bbox_a, bbox_b) ==
    LET inter_w == Min(bbox_a[3], bbox_b[3]) - Max(bbox_a[1], bbox_b[1])
        inter_h == Min(bbox_a[4], bbox_b[4]) - Max(bbox_a[2], bbox_b[2])
        area_a == Max(0, bbox_a[3] - bbox_a[1]) * Max(0, bbox_a[4] - bbox_a[2])
    IN IF inter_w <= 0 \/ inter_h <= 0 THEN <<0, 1>>
       ELSE IF area_a <= 0 THEN <<0, 1>>
       ELSE <<inter_w * inter_h, area_a>>

\* _bbox_overlap_ratio, as the exact fraction <<inter_area, denom>>; 0.0 is
\* <<0, 1>>.  For integer boxes of this size two different fractions differ
\* by far more than a rounding error, so comparing the fractions decides
\* every comparison of the rounded quotients the same way.
BboxOverlapRatio(bbox_a, bbox_b) ==
    LET inter_x1 == Max(bbox_a[1], bbox_b[1])
        inter_y1 == Max(bbox_a[2], bbox_b[2])
        inter_x2 == Min(bbox_a[3], bbox_b[3])
        inter_y2 == Min(bbox_a[4], bbox_b[4])
        inter_w == inter_x2 - inter_x1
        inter_h == inter_y2 - inter_y1
        area_a == Max(0, bbox_a[3] - bbox_a[1]) * Max(0, bbox_a[4] - bbox_a[2])
        area_b == Max(0, bbox_b[3] - bbox_b[1]) * Max(0, bbox_b[4] - bbox_b[2])
        denom == Min(area_a, area_b)
    IN IF inter_w <= 0 \/ inter_h <= 0 THEN <<0, 1>>
       ELSE IF denom <= 0 THEN <<0, 1>>
       ELSE <<inter_w * inter_h, denom>>

\* r > s for two fractions with positive denominators.
RatioGt(r, s) == r[1] * s[2] > s[1] * r[2]

\* The literal 0.4 of the retired test and of the match test: 2/5.  The
\* double nearest to 2/5 is what a quotient equal to 2/5 rounds to, so
\* "ratio > 0.4" is false for it, as it is for the fraction.
OverlapThreshold == <<2, 5>>

\* The area an entry of the dict built by find_marks_in_areas /
\* count_marks_in_areas ends up holding: a later area of the same name
\* overwrites the entry of an earlier one.
AreaNames(named_areas) == {named_areas[i].name : i \in DOMAIN named_areas}

AreaOfName(named_areas, name) ==
    LET idx == {i \in DOMAIN named_areas : named_areas[i].name = name}
    IN named_areas[CHOOSE i \in idx : \A j \in idx : j <= i]

CenterInArea(mark, area) ==
    /\ area.x <= mark.center_x /\ mark.center_x <= area.x + area.width
    /\ area.y <= mark.center_y /\ mark.center_y <= area.y + area.height

\* find_marks_in_areas: area name -> the tracked marks whose centre is inside
FindMarksInAreas(marks, named_areas) ==
    [name \in AreaNames(named_areas) |->
        LET area == AreaOfName(named_areas, name)
            Inside(tm) == CenterInArea(tm.mark, area)
        IN SelectSeq(marks, Inside)]

\* count_marks_in_areas: area name -> the number of marks whose centre is
\* inside
CountMarksInAreas(marks, named_areas) ==
    [name \in AreaNames(named_areas) |->
        LET area == AreaOfName(named_areas, name)
            Inside(mark) == CenterInArea(mark, area)
        IN Len(SelectSeq(marks, Inside))]

(***************************************************************************)
(* Identity tracker: the body of _build_batch_points_from_results.         *)
(* A tracked mark is [obj, id, mark, bbox, last_seen_frame]; obj numbers   *)
(* the _TrackedMark objects in the order they are constructed (Python's    *)
(* object identity), id is the field the code assigns.                     *)
(***************************************************************************)

\* The frames a mark may go unseen before it is retired (line 389).
RetireAfter == 3

\* OverlapsRetired that tests the first retired bbox only.
OverlapsFirstRetired(bbox, retired_bboxes) ==
    /\ retired_bboxes # <<>>
    /\ RatioGt(BboxOverlapRatio(bbox, retired_bboxes[1]), OverlapThreshold)

\* any(_bbox_overlap_ratio(bbox, retired) > 0.4 for retired in retired_bboxes)
OverlapsRetired(bbox, retired_bboxes) ==
    \E i \in DOMAIN retired_bboxes :
        RatioGt(BboxOverlapRatio(bbox, retired_bboxes[i]), OverlapThreshold)

\* The search loop for the best active mark not yet matched in this frame,
\* from 0-based position idx on: [idx, ratio], idx = -1 when none overlaps.
RECURSIVE BestMatch(_, _, _, _, _)
BestMatch(bbox, active_marks, matched_active, idx, best) ==
    IF idx >= Len(active_marks) THEN best
    ELSE IF idx \in matched_active
         THEN BestMatch(bbox, active_marks, matched_active, idx + 1, best)
    ELSE LET ratio == BboxOverlapRatio(bbox, active_marks[idx + 1].bbox)
         IN IF RatioGt(ratio, best.ratio)
            THEN BestMatch(bbox, active_marks, matched_active, idx + 1,
                           [idx |-> idx, ratio |-> ratio])
            ELSE BestMatch(bbox, active_marks, matched_active, idx + 1, best)

\* IsMatch that also accepts a best ratio of exactly 0.4.
IsMatchAtThreshold(best) == best.idx >= 0 /\ ~RatioGt(OverlapThreshold, best.ratio)

\* best_idx >= 0 and best_ratio > 0.4
IsMatch(best) == best.idx >= 0 /\ RatioGt(best.ratio, OverlapThreshold)

\* id=len(active_marks)
NewMarkId(active_marks) == Len(active_marks)

\* TrackMark that leaves a matched mark out of the frame's output list.
TrackMarkWithoutMatched(fs, mark, frame_idx, retired_bboxes) ==
    LET bbox == MarkBbox(mark)
        best == BestMatch(bbox, fs.active_marks, fs.matched_active, 0,
                          [idx |-> -1, ratio |-> <<0, 1>>])
    IN IF OverlapsRetired(bbox, retired_bboxes) THEN fs
       ELSE IF IsMatch(best)
       THEN [fs EXCEPT
               !.active_marks[best.idx + 1] =
                   [@ EXCEPT !.mark = mark, !.bbox = bbox,
                             !.last_seen_frame = frame_idx],
               !.matched_active = @ \cup {best.idx}]
       ELSE [fs EXCEPT
               !.active_marks =
                   Append(@, [obj |-> Len(fs.allocated),
                              id |-> NewMarkId(fs.active_marks),
                              mark |-> mark,
                              bbox |-> bbox,
                              last_seen_frame |-> frame_idx]),
               !.filtered = Append(@, Len(fs.active_marks)),
               !.allocated = Append(@, NewMarkId(fs.active_marks))]

\* One detection of a frame.  fs = [active_marks, matched_active, filtered,
\* allocated]: filtered lists 0-based positions in active_marks, because
\* filtered_marks holds references to the objects of active_marks, which a
\* later detection of the same frame may still update; allocated is the id
\* given to each _TrackedMark constructed so far in the run, in order.
TrackMark(fs, mark, frame_idx, retired_bboxes) ==
    LET bbox == MarkBbox(mark)
        best == BestMatch(bbox, fs.active_marks, fs.matched_active, 0,
                          [idx |-> -1, ratio |-> <<0, 1>>])
    IN IF OverlapsRetired(bbox, retired_bboxes) THEN fs
       ELSE IF IsMatch(best)
       THEN [fs EXCEPT
               !.active_marks[best.idx + 1] =
                   [@ EXCEPT !.mark = mark, !.bbox = bbox,
                             !.last_seen_frame = frame_idx],
               !.matched_active = @ \cup {best.idx},
               !.filtered = Append(@, best.idx)]
       ELSE LET tm == [obj |-> Len(fs.allocated),
                       id |-> NewMarkId(fs.active_marks),
                       mark |-> mark,
                       bbox |-> bbox,
                       last_seen_frame |-> frame_idx]
            IN [fs EXCEPT
                  !.active_marks = Append(@, tm),
                  !.filtered = Append(@, Len(fs.active_marks)),
                  !.allocated = Append(@, tm.id)]

\* for mark in marks: ...
RECURSIVE TrackMarks(_, _, _, _)
TrackMarks(fs, marks, frame_idx, retired_bboxes) ==
    IF marks = <<>> THEN fs
    ELSE TrackMarks(TrackMark(fs, Head(marks), frame_idx, retired_bboxes),
                    Tail(marks), frame_idx, retired_bboxes)

\* IsRetired that already retires a mark unseen for 3 frames.
IsRetiredAtLimit(tracked, frame_idx) ==
    frame_idx - tracked.last_seen_frame >= RetireAfter

\* frame_idx - tracked.last_seen_frame > 3
IsRetired(tracked, frame_idx) == frame_idx - tracked.last_seen_frame > RetireAfter

\* The retirement pass at the end of a frame.
Retire(active_marks, retired_bboxes, frame_idx) ==
    LET Gone(tm) == IsRetired(tm, frame_idx)
        Kept(tm) == ~IsRetired(tm, frame_idx)
        gone == SelectSeq(active_marks, Gone)
    IN [active_marks |-> SelectSeq(active_marks, Kept),
        retired_bboxes |-> retired_bboxes \o [i \in 1..Len(gone) |-> gone[i].bbox]]

\* One iteration of "for frame_idx, r in enumerate(results)", up to the
\* retirement pass.  tr = [active_marks, retired_bboxes, allocated]; the
\* result adds filtered_marks, the frame's output list.
TrackFrame(tr, marks, frame_idx) ==
    LET fs == TrackMarks([active_marks |-> tr.active_marks,
                          matched_active |-> {},
                          filtered |-> <<>>,
                          allocated |-> tr.allocated],
                         marks, frame_idx, tr.retired_bboxes)
        after == Retire(fs.active_marks, tr.retired_bboxes, frame_idx)
    IN [active_marks |-> after.active_marks,
        retired_bboxes |-> after.retired_bboxes,
        allocated |-> fs.allocated,
        filtered_marks |-> [k \in 1..Len(fs.filtered) |->
                               fs.active_marks[fs.filtered[k] + 1]]]

\* list.sort(key=lambda r: r.timestamp, reverse=reverse): Python's sort is
\* stable, also with reverse=True.
RECURSIVE SortByTimestamp(_, _)
SortByTimestamp(s, reverse) ==
    IF s = <<>> THEN <<>>
    ELSE LET n == Len(s)
             init == SortByTimestamp(SubSeq(s, 1, n - 1), reverse)
             x == s[n]
             k == Cardinality({i \in DOMAIN init :
                     IF reverse THEN init[i].timestamp >= x.timestamp
                                ELSE init[i].timestamp <= x.timestamp})
         IN SubSeq(init, 1, k) \o <<x>> \o SubSeq(init, k + 1, n - 1)

\* _BatchPoint(...) of one frame
BatchPoint(r, filtered_marks, start_ts, named_areas) ==
    [timestamp |-> r.timestamp - start_ts,
     base_temp_c |-> r.base_temp_c,
     marks_in_areas |-> FindMarksInAreas(filtered_marks, named_areas),
     image_index |-> r.image_index]

\* The frame loop over results already sorted, from 0-based frame_idx on.
RECURSIVE TrackResults(_, _, _, _, _)
TrackResults(results, frame_idx, tr, start_ts, named_areas) ==
    IF frame_idx >= Len(results) THEN <<>>
    ELSE LET r == results[frame_idx + 1]
             t == TrackFrame(tr, r.marks, frame_idx)
         IN <<BatchPoint(r, t.filtered_marks, start_ts, named_areas)>>
            \o TrackResults(results, frame_idx + 1,
                            [active_marks |-> t.active_marks,
                             retired_bboxes |-> t.retired_bboxes,
                             allocated |-> t.allocated],
                            start_ts, named_areas)

\* SortPoints left out: the points stay in the order of the reverse pass.
SortPointsSkipped(points) == points

\* points.sort(key=lambda p: p.timestamp)
SortPoints(points) == SortByTimestamp(points, FALSE)

\* _build_batch_points_from_results
BuildBatchPointsFromResults(results, start_ts, named_areas) ==
    SortPoints(TrackResults(SortByTimestamp(results, TRUE), 0,
                            [active_marks |-> <<>>,
                             retired_bboxes |-> <<>>,
                             allocated |-> <<>>],
                            start_ts, named_areas))

(***************************************************************************)
(* Batch aggregator: _get_area_max_counts and _build_batch_result.         *)
(***************************************************************************)

WANTED_PERCENTILES == <<10, 50, 90>>

\* The keys of a dict comprehension over named_areas, in insertion order.
RECURSIVE AreaNameSeq(_)
AreaNameSeq(named_areas) ==
    IF named_areas = <<>> THEN <<>>
    ELSE LET n == Len(named_areas)
             init == AreaNameSeq(SubSeq(named_areas, 1, n - 1))
         IN IF named_areas[n].name \in Range(init) THEN init
            ELSE Append(init, named_areas[n].name)

\* {mark.id for mark in marks}
MarkIds(marks) == {marks[i].id : i \in DOMAIN marks}

\* AreaMaxStep with the maximum taken over the per-frame counts instead of
\* over the running union of ids.
AreaMaxStepPerFrame(st, p) ==
    [mark_ids_in_area |-> st.mark_ids_in_area,
     area_max_counts |->
        [name \in DOMAIN st.area_max_counts |->
            IF name \in DOMAIN p.marks_in_areas
            THEN Max(st.area_max_counts[name],
                     Cardinality(MarkIds(p.marks_in_areas[name])))
            ELSE st.area_max_counts[name]]]

\* One point of the loop of _get_area_max_counts.
\* st = [mark_ids_in_area, area_max_counts]
AreaMaxStep(st, p) ==
    [mark_ids_in_area |->
        [name \in DOMAIN st.mark_ids_in_area |->
            IF name \in DOMAIN p.marks_in_areas
            THEN st.mark_ids_in_area[name] \cup MarkIds(p.marks_in_areas[name])
            ELSE st.mark_ids_in_area[name]],
     area_max_counts |->
        [name \in DOMAIN st.area_max_counts |->
            IF name \in DOMAIN p.marks_in_areas
            THEN Max(st.area_max_counts[name],
                     Cardinality(st.mark_ids_in_area[name]
                                 \cup MarkIds(p.marks_in_areas[name])))
            ELSE st.area_max_counts[name]]]

RECURSIVE AreaMaxLoop(_, _)
AreaMaxLoop(st, points) ==
    IF points = <<>> THEN st
    ELSE AreaMaxLoop(AreaMaxStep(st, Head(points)), Tail(points))

\* _get_area_max_counts
GetAreaMaxCounts(points, named_areas) ==
    AreaMaxLoop([mark_ids_in_area |-> [name \in AreaNames(named_areas) |-> {}],
                 area_max_counts |-> [name \in AreaNames(named_areas) |-> 0]],
                points).area_max_counts

\* cur_pct = int(cur / amax * 100)
CurPct(cur, amax) == FloatPct(cur, amax)

\* Crosses with a strict comparison.
CrossesStrictly(cur_pct, pct) == cur_pct > pct

\* cur_pct >= pct_stack_for_area[0]
Crosses(cur_pct, pct) == cur_pct >= pct

\* AreaPStatPoint(p.timestamp, p.base_temp_c, cur, amax, p.image_index)
AreaPStatPoint(p, cur, amax) ==
    [timestamp |-> p.timestamp,
     base_temp_c |-> p.base_temp_c,
     count_cur |-> cur,
     count_max |-> amax,
     frame_index |-> p.image_index]

\* PopPercentiles that records every threshold reached but leaves the stack
\* as it was, so that a later point records them again.
PopPercentilesKeepsStack(ps, area_name, cur_pct, snapshot) ==
    [stack |-> ps.stack,
     percentile_for_area |->
        [pct \in DOMAIN ps.percentile_for_area |->
            IF pct \in Range(ps.stack) /\ cur_pct >= pct
            THEN (area_name :> snapshot) @@ ps.percentile_for_area[pct]
            ELSE ps.percentile_for_area[pct]]]

\* PopPercentiles with "if" for "while": at most one threshold per point.
PopPercentilesOnce(ps, area_name, cur_pct, snapshot) ==
    IF ps.stack # <<>> /\ cur_pct >= Head(ps.stack)
    THEN [stack |-> Tail(ps.stack),
          percentile_for_area |->
             [ps.percentile_for_area EXCEPT
                 ![Head(ps.stack)] = (area_name :> snapshot) @@ @]]
    ELSE ps

\* while pct_stack_for_area and cur_pct >= pct_stack_for_area[0]: pop, record
\* ps = [stack, percentile_for_area]
RECURSIVE PopPercentiles(_, _, _, _)
PopPercentiles(ps, area_name, cur_pct, snapshot) ==
    IF ps.stack # <<>> /\ Crosses(cur_pct, Head(ps.stack))
    THEN PopPercentiles(
            [stack |-> Tail(ps.stack),
             percentile_for_area |->
                [ps.percentile_for_area EXCEPT
                    ![Head(ps.stack)] = (area_name :> snapshot) @@ @]],
            area_name, cur_pct, snapshot)
    ELSE ps

\* AggArea that appends nothing for an area whose maximum is 0.
AggAreaSkipsEmptyArea(agg, p, area_name, area_max_counts) ==
    LET amax == area_max_counts[area_name]
        area_ids == agg.mark_ids_in_area[area_name]
                        \cup MarkIds(p.marks_in_areas[area_name])
        cur == Cardinality(area_ids)
        cur_pct == FloatPct(cur, amax)
    IN IF amax = 0 THEN agg
       ELSE [agg EXCEPT
               !.mark_ids_in_area[area_name] = area_ids,
               !.area_counts_res[area_name] = Append(@, cur_pct)]

\* AggArea that counts the marks of the current point alone.
AggAreaOfPointAlone(agg, p, area_name, area_max_counts) ==
    LET amax == area_max_counts[area_name]
        area_ids == MarkIds(p.marks_in_areas[area_name])
        cur == Cardinality(area_ids)
        cur_pct == CurPct(cur, amax)
        ps == PopPercentiles(
                 [stack |-> agg.percentiles_stack[area_name],
                  percentile_for_area |-> agg.percentile_for_area],
                 area_name, cur_pct, AreaPStatPoint(p, cur, amax))
    IN IF amax = 0
       THEN [agg EXCEPT !.area_counts_res[area_name] = Append(@, 0)]
       ELSE [agg EXCEPT
               !.mark_ids_in_area[area_name] = area_ids,
               !.percentiles_stack[area_name] = ps.stack,
               !.percentile_for_area = ps.percentile_for_area,
               !.area_counts_res[area_name] = Append(@, cur_pct)]

\* The body of "for area_name, marks in p.marks_in_areas.items()".
\* agg = [area_counts_res, mark_ids_in_area, percentiles_stack,
\*        percentile_for_area]
AggArea(agg, p, area_name, area_max_counts) ==
    LET amax == area_max_counts[area_name]
        area_ids == agg.mark_ids_in_area[area_name]
                        \cup MarkIds(p.marks_in_areas[area_name])
        cur == Cardinality(area_ids)
        cur_pct == CurPct(cur, amax)
        ps == PopPercentiles(
                 [stack |-> agg.percentiles_stack[area_name],
                  percentile_for_area |-> agg.percentile_for_area],
                 area_name, cur_pct, AreaPStatPoint(p, cur, amax))
    IN IF amax = 0
       THEN [agg EXCEPT !.area_counts_res[area_name] = Append(@, 0)]
       ELSE [agg EXCEPT
               !.mark_ids_in_area[area_name] = area_ids,
               !.percentiles_stack[area_name] = ps.stack,
               !.percentile_for_area = ps.percentile_for_area,
               !.area_counts_res[area_name] = Append(@, cur_pct)]

RECURSIVE AggAreas(_, _, _, _)
AggAreas(agg, p, names, area_max_counts) ==
    IF names = <<>> THEN agg
    ELSE AggAreas(AggArea(agg, p, Head(names), area_max_counts),
                  p, Tail(names), area_max_counts)

\* One iteration of "for p in points" of _build_batch_result.  The dict
\* p.marks_in_areas was built by find_marks_in_areas over the same named
\* areas, so its keys are AreaNameSeq(named_areas).
AggPoint(agg, p, named_areas, area_max_counts) ==
    AggAreas(agg, p, AreaNameSeq(named_areas), area_max_counts)

\* The dicts _build_batch_result starts from.
AggStart(named_areas) ==
    [area_counts_res |-> [name \in AreaNames(named_areas) |-> <<>>],
     mark_ids_in_area |-> [name \in AreaNames(named_areas) |-> {}],
     percentiles_stack |-> [name \in AreaNames(named_areas) |-> WANTED_PERCENTILES],
     percentile_for_area |-> [pct \in Range(WANTED_PERCENTILES) |-> <<>>]]

RECURSIVE AggLoop(_, _, _, _)
AggLoop(agg, points, named_areas, area_max_counts) ==
    IF points = <<>> THEN agg
    ELSE AggLoop(AggPoint(agg, Head(points), named_areas, area_max_counts),
                 Tail(points), named_areas, area_max_counts)

\* BatchAnalysisResult(timestamps=..., area_counts=..., percentile_for_area=...)
BatchAnalysisResult(points, agg) ==
    [timestamps |-> [i \in 1..Len(points) |-> points[i].timestamp],
     area_counts |-> agg.area_counts_res,
     percentile_for_area |-> agg.percentile_for_area]

\* _build_batch_result
BuildBatchResult(points, named_areas) ==
    BatchAnalysisResult(points,
        AggLoop(AggStart(named_areas), points, named_areas,
                GetAreaMaxCounts(points, named_areas)))

(***************************************************************************)
(* State.                                                                  *)
(***************************************************************************)

VARIABLES
    \* AppState
    base_x, base_y,         \* app_state.analysis.base_x / base_y, or None
    named_areas,            \* app_state.areas.named_areas
    reader,                 \* app_state.recording.reader, or None
    batch_sampling_rate,    \* app_state.analysis.batch_sampling_rate
    batch_result,           \* app_state.analysis.batch_result, or None
    \* run_batch_analysis / _collect_batch_points
    pc,                     \* "idle", or "collecting" inside as_completed
    pending,                \* image indices of the futures not yet completed
    results,                \* the list results, in completion order
    progress_calls,         \* the (progress_idx, total) the running call reported
    completion_order,       \* image indices in the order the last run got them
    run_outcome,            \* the last call: "none", "running", "noop", "stored"
    \* the frame loop of _build_batch_points_from_results
    frame_idx,              \* frames processed so far (the next frame_idx)
    active_marks, retired_bboxes,
    allocated,              \* id of every _TrackedMark constructed, in order
    cur_marks,              \* r.marks of the frame processed last
    filtered_marks,         \* filtered_marks of the frame processed last
    frame_point,            \* the _BatchPoint appended for that frame
    \* _build_batch_result
    points,                 \* its argument
    agg_pc,                 \* "call", "loop", "returned"
    agg_i,                  \* points consumed by the main loop
    area_max_counts,
    agg,                    \* area_counts_res, mark_ids_in_area, ...
    \* the user interface around a batch run, and the live analysis
    button_enabled,         \* the analyze button: enabled
    button_label,           \* the analyze button: label
    status_text,            \* the value of the status text item
    handler_active,         \* on_batch_analyze_clicked is the caller of the run
    area_mark_counts,       \* app_state.analysis.area_mark_counts
    \* the clock of _collect_batch_points, in tenths of a second
    now,                    \* what time.monotonic() returned last
    last_progress_time,
    callback_given,         \* progress_callback is not None
    \* a call of _bbox_overlap_ratio
    arg_a, arg_b,           \* its arguments bbox_a, bbox_b
    overlap_ratio,          \* what it returned, or None before the call
    \* analysis.run_batch_analysis, the variant over an image directory
    selected_color,         \* app_state.selected_color, or None
    paths,                  \* app_state.repo.get_paths(): the images
    timestamps,             \* its local list timestamps
    area_counts,            \* its local dict area_counts, or None
    \* the recording panel and the camera
    camera_connected,       \* state.camera_connected
    active, paused,         \* state.recording.active / paused
    current_recording_path, \* state.recording.current_recording_path, or None
    recorder,               \* camera._recorder: None or the Recorder's number
    recorder_paused,        \* camera._recorder_paused
    rec,                    \* the Recorder constructed last, or None
    accepted,               \* the frames its on_frame put on the queue
    ui_pc,                  \* "idle", or where a call of the camera waits
    caller,                 \* who made that call: "handler" or "direct"
    last_call,              \* the last call of the panel or the camera
    made,                   \* Recorder objects constructed so far
    live_recorders,         \* Recorders assigned to a camera and not stopped
    next_frame,             \* the number of the frame the camera reads next
    \* the recording opened for analysis
    recording_frame_count,  \* state.recording.frame_count
    recording_frame_index,  \* state.recording.frame_index
    selected_recording_path \* state.recording.selected_recording_path, or None

appVars == <<base_x, base_y, named_areas, reader, batch_sampling_rate, batch_result>>

runVars == <<pc, pending, results, progress_calls, completion_order, run_outcome>>

trackVars == <<frame_idx, active_marks, retired_bboxes, allocated, cur_marks,
               filtered_marks, frame_point>>

aggVars == <<points, agg_pc, agg_i, area_max_counts, agg>>

uiVars == <<button_enabled, button_label, status_text, handler_active,
            area_mark_counts>>

clockVars == <<now, last_progress_time, callback_given>>

bboxVars == <<arg_a, arg_b, overlap_ratio>>

\* The variables of the parts added to the model last.
legacyVars == <<selected_color, paths, timestamps, area_counts>>

camVars == <<camera_connected, active, paused, current_recording_path, recorder,
             recorder_paused, rec, accepted, ui_pc, caller, last_call, made,
             live_recorders, next_frame>>

panelVars == <<recording_frame_count, recording_frame_index,
               selected_recording_path>>

otherVars == <<clockVars, bboxVars, legacyVars, camVars, panelVars>>

vars == <<appVars, runVars, trackVars, aggVars, uiVars, otherVars>>

RunIdle ==
    /\ pc = "idle" /\ pending = {} /\ results = <<>> /\ progress_calls = <<>>
    /\ completion_order = <<>> /\ run_outcome = "none"

TrackIdle ==
    /\ frame_idx = 0 /\ active_marks = <<>> /\ retired_bboxes = <<>>
    /\ allocated = <<>> /\ cur_marks = <<>> /\ filtered_marks = <<>>
    /\ frame_point = None

AggIdle ==
    /\ points = <<>> /\ agg_pc = "idle" /\ agg_i = 0
    /\ area_max_counts = None /\ agg = None

\* No run has read the clock.
ClockIdle == now = 0 /\ last_progress_time = 0 /\ callback_given = TRUE

\* _bbox_overlap_ratio has not been called.
BboxIdle ==
    arg_a = <<0, 0, 0, 0>> /\ arg_b = <<0, 0, 0, 0>> /\ overlap_ratio = None

\* No image directory is loaded.
LegacyIdle ==
    /\ selected_color = None /\ paths = <<>>
    /\ timestamps = <<>> /\ area_counts = None

NoCall == [op |-> "none", by |-> "none", outcome |-> "none"]

\* RecordingState and Camera as constructed, no camera connected.
CamIdle ==
    /\ camera_connected = FALSE
    /\ active = FALSE /\ paused = FALSE /\ current_recording_path = None
    /\ recorder = None /\ recorder_paused = FALSE
    /\ rec = None /\ accepted = <<>>
    /\ ui_pc = "idle" /\ caller = "handler" /\ last_call = NoCall
    /\ made = 0 /\ live_recorders = 0 /\ next_frame = 1

\* RecordingState as constructed: no recording selected or opened.
PanelIdle ==
/\ recording_frame_count = 0 /\ recording_frame_index = 0
    /\ selected_recording_path = None

OtherIdle ==
    /\ ClockIdle
    /\ BboxIdle
    /\ LegacyIdle
    /\ CamIdle
    /\ PanelIdle

\* The button as analysis_panel builds it, the empty status text, no counts.
UiIdle ==
    /\ button_enabled = TRUE /\ button_label = "Analyze Recording"
    /\ status_text = ""
    /\ handler_active = FALSE
    /\ area_mark_counts = <<>>

(***************************************************************************)
(* SpecAgg: _build_batch_result, one loop iteration per step, on points    *)
(* drawn from bounded families.                                            *)
(***************************************************************************)

MaxAggPoints == 3

MaxWideIds == 50

NamedArea(name, x, y, width, height) ==
    [name |-> name, x |-> x, y |-> y, width |-> width, height |-> height]

AreaA == NamedArea("A", 0, 0, 20, 10)

AreaB == NamedArea("B", 10, 0, 30, 10)

DetectedMark(cx, cy, a, b) ==
    [center_x |-> cx, center_y |-> cy, axis_a |-> a, axis_b |-> b, angle |-> 0]

RECURSIVE SetToSeq(_)
SetToSeq(S) ==
    IF S = {} THEN <<>>
    ELSE LET m == CHOOSE x \in S : \A y \in S : x <= y
         IN <<m>> \o SetToSeq(S \ {m})

\* Where the mark with a given id lies: mark 0 in both AreaA and AreaB, every
\* other mark in AreaA alone.
MarkOfId(id) == IF id = 0 THEN DetectedMark(15, 5, 1, 1) ELSE DetectedMark(5, 5, 1, 1)

\* A frame's output list holding the tracked marks with the given ids.
MarksOfIds(ids) ==
    [k \in 1..Len(ids) |->
        [obj |-> ids[k], id |-> ids[k], mark |-> MarkOfId(ids[k]),
         bbox |-> MarkBbox(MarkOfId(ids[k])), last_seen_frame |-> 0]]

\* ids 0 .. n-1
FirstIds(n) == [k \in 1..n |-> k - 1]

\* The k-th chronological point (k = 1, 2, ...) as the tracker builds it from
\* a frame's output list: sampled every 5th frame, two seconds apart.
AggInputPoint(k, ids, areas) ==
    [timestamp |-> 2 * (k - 1),
     base_temp_c |-> 20 + k,
     marks_in_areas |-> FindMarksInAreas(MarksOfIds(ids), areas),
     image_index |-> 5 * (k - 1)]

\* Two overlapping areas, up to MaxAggPoints points, any of the marks AggIds
\* at each point.
AggIds == {0, 1, 2}

InitSmall ==
    \E n \in 1..MaxAggPoints :
        \E f \in [1..n -> SUBSET AggIds] :
            /\ named_areas = <<AreaA, AreaB>>
            /\ points = [k \in 1..n |->
                           AggInputPoint(k, SetToSeq(f[k]), <<AreaA, AreaB>>)]

\* One area, two points, up to MaxWideIds marks: ids 0..n-1 at each point.
InitWide ==
    \E c \in [1..2 -> 0..MaxWideIds] :
        /\ named_areas = <<AreaA>>
        /\ points = [k \in 1..2 |-> AggInputPoint(k, FirstIds(c[k]), <<AreaA>>)]

\* The ten-point scenario: at point k the detector either sees all the marks
\* seen so far in the scenario, or none.
ScenarioCumulative == <<3, 5, 5, 7, 9, 10, 10, 10, 10, 10>>

ScenarioPoints(seen) ==
    [k \in 1..Len(ScenarioCumulative) |->
        AggInputPoint(k, IF seen[k] THEN FirstIds(ScenarioCumulative[k]) ELSE <<>>,
                      <<AreaA>>)]

InitScenario ==
    \E seen \in [1..Len(ScenarioCumulative) -> BOOLEAN] :
        /\ named_areas = <<AreaA>>
        /\ points = ScenarioPoints(seen)

InitAgg ==
    /\ InitSmall \/ InitWide \/ InitScenario
    /\ agg_pc = "call" /\ agg_i = 0 /\ area_max_counts = None /\ agg = None
    /\ base_x = None /\ base_y = None /\ reader = None
    /\ batch_sampling_rate = 1 /\ batch_result = None
    /\ RunIdle /\ TrackIdle /\ UiIdle /\ OtherIdle

\* lines 470-481: timestamps, area_max_counts and the empty dicts
AggBegin ==
    /\ agg_pc = "call"
    /\ area_max_counts' = GetAreaMaxCounts(points, named_areas)
    /\ agg' = AggStart(named_areas)
    /\ agg_pc' = "loop"
    /\ UNCHANGED <<points, agg_i, appVars, runVars, trackVars, uiVars,
                   otherVars>>

\* lines 483-503: one point
AggIterate ==
    /\ agg_pc = "loop"
    /\ agg_i < Len(points)
    /\ agg' = AggPoint(agg, points[agg_i + 1], named_areas, area_max_counts)
    /\ agg_i' = agg_i + 1
    /\ UNCHANGED <<points, agg_pc, area_max_counts, appVars, runVars, trackVars, uiVars,
                   otherVars>>

\* lines 505-509: return BatchAnalysisResult(...)
AggReturn ==
    /\ agg_pc = "loop"
    /\ agg_i = Len(points)
    /\ batch_result' = BatchAnalysisResult(points, agg)
    /\ agg_pc' = "returned"
    /\ UNCHANGED <<points, agg_i, area_max_counts, agg, base_x, base_y,
                   named_areas, reader, batch_sampling_rate, runVars, trackVars, uiVars,
                   otherVars>>

NextAgg == AggBegin \/ AggIterate \/ AggReturn

SpecAgg == InitAgg /\ [][NextAgg]_vars

\* The stepwise run returns what the function computes as a whole.
AggStepsAgree ==
    agg_pc = "returned" => batch_result = BuildBatchResult(points, named_areas)

(***************************************************************************)
(* Properties of the aggregator (checked under SpecAgg).                   *)
(***************************************************************************)

\* The distinct ids seen in an area in the chronological points 1..k.
CumIds(name, k) == UNION {MarkIds(points[j].marks_in_areas[name]) : j \in 1..k}

CumCount(name, k) == Cardinality(CumIds(name, k))

\* The distinct ids seen in an area over the run.
RunMax(name) == CumCount(name, Len(points))

\* The percent lists as far as they are built.
CountsSoFar == IF agg_pc = "returned" THEN batch_result.area_counts
               ELSE agg.area_counts_res

SnapshotsSoFar == IF agg_pc = "returned" THEN batch_result.percentile_for_area
                  ELSE agg.percentile_for_area

AggRunning == agg_pc \in {"loop", "returned"}

\* C3: every area's percent list has one entry per sampled point, also for
\* an area whose maximum is 0: after k points each list has k entries, and
\* in the result each list is as long as timestamps.
C3_AreaCountsAligned ==
    /\ agg_pc = "loop" =>
          \A name \in AreaNames(named_areas) :
              Len(agg.area_counts_res[name]) = agg_i
    /\ agg_pc = "returned" =>
          /\ DOMAIN batch_result.area_counts = AreaNames(named_areas)
          /\ Len(batch_result.timestamps) = Len(points)
          /\ \A name \in AreaNames(named_areas) :
                Len(batch_result.area_counts[name]) = Len(batch_result.timestamps)

\* A result over several points with an area that saw marks and one that
\* never did.
C3_Witness ==
    /\ agg_pc = "returned"
    /\ Len(batch_result.timestamps) >= 2
    /\ \E a, b \in AreaNames(named_areas) :
          area_max_counts[a] > 0 /\ area_max_counts[b] = 0

\* C4: every percent value, in the lists being built and in the result, is
\* an integer from 0 to 100.
C4_PercentInRange ==
    AggRunning =>
        \A name \in DOMAIN CountsSoFar :
            \A i \in DOMAIN CountsSoFar[name] : CountsSoFar[name][i] \in 0..100

\* A result holding 0, 100 and a value strictly between.
C4_Witness ==
    /\ agg_pc = "returned"
    /\ \E name \in DOMAIN batch_result.area_counts :
          LET vals == Range(batch_result.area_counts[name])
          IN 0 \in vals /\ 100 \in vals /\ \E v \in vals : 0 < v /\ v < 100

\* C5: the percent of point i is 0 when the area never held a mark, and
\* otherwise floor(100 * c_i / area_max), c_i the distinct ids seen in the
\* area in points 1..i and area_max the distinct ids seen over the run.
C5_PercentIsFloor ==
    agg_pc = "returned" =>
        \A name \in AreaNames(named_areas) :
            \A i \in 1..Len(points) :
                batch_result.area_counts[name][i] =
                    IF RunMax(name) = 0 THEN 0
                    ELSE (100 * CumCount(name, i)) \div RunMax(name)

\* The thresholds an area's percent has reached within the points consumed.
Hits(name, pct) == {i \in DOMAIN CountsSoFar[name] : CountsSoFar[name][i] >= pct}

FirstHit(name, pct) == CHOOSE i \in Hits(name, pct) : \A j \in Hits(name, pct) : i <= j

\* C6: at every moment of the loop and in the result, an area has a snapshot
\* for a threshold exactly if one of the points consumed so far reached it,
\* and the snapshot is that of the first such point: its timestamp, base
\* temperature and frame index, the distinct ids seen up to it and the
\* area's maximum.  (A snapshot that a later point replaced or recorded anew
\* would differ from the first point's.)
C6_SnapshotAtFirstCrossing ==
    AggRunning =>
        \A pct \in {10, 50, 90} :
            \A name \in AreaNames(named_areas) :
                IF Hits(name, pct) = {}
                THEN name \notin DOMAIN SnapshotsSoFar[pct]
                ELSE /\ name \in DOMAIN SnapshotsSoFar[pct]
                     /\ SnapshotsSoFar[pct][name] =
                          LET m == FirstHit(name, pct)
                          IN [timestamp |-> points[m].timestamp,
                              base_temp_c |-> points[m].base_temp_c,
                              count_cur |-> CumCount(name, m),
                              count_max |-> RunMax(name),
                              frame_index |-> points[m].image_index]

\* A result in which the 10 and the 50 snapshot of an area were taken at
\* different points and points reaching 50 again followed.
C6_Witness ==
    /\ agg_pc = "returned"
    /\ \E name \in AreaNames(named_areas) :
          /\ Hits(name, 10) # {} /\ Hits(name, 50) # {}
          /\ FirstHit(name, 10) < FirstHit(name, 50)
          /\ Cardinality(Hits(name, 50)) >= 2

\* The run of the scenario: one area "A" whose cumulative distinct-id counts
\* over ten chronological points are 3,5,5,7,9,10,10,10,10,10.
ScenarioRun ==
    /\ agg_pc = "returned"
    /\ AreaNames(named_areas) = {"A"}
    /\ Len(points) = Len(ScenarioCumulative)
    /\ \A k \in 1..Len(points) : CumCount("A", k) = ScenarioCumulative[k]

\* The snapshot of threshold 50 was taken at the point of 0-based index idx.
Fires50At(idx) ==
    /\ "A" \in DOMAIN batch_result.percentile_for_area[50]
    /\ batch_result.percentile_for_area[50]["A"].timestamp = points[idx + 1].timestamp
    /\ batch_result.percentile_for_area[50]["A"].frame_index = points[idx + 1].image_index
    /\ batch_result.percentile_for_area[50]["A"].count_cur = 5
    /\ batch_result.percentile_for_area[50]["A"].count_max = 10

\* C7 as stated: in the scenario the percentile-50 snapshot fires at index 2
\* with count_cur = 5 and count_max = 10.
C7_FiresAtIndex2 == ScenarioRun => Fires50At(2)

\* C7 amended: it fires at index 1, the first of the two points whose
\* cumulative count is 5, with count_cur = 5 and count_max = 10.
C7_FiresAtIndex1 == ScenarioRun => Fires50At(1)

C7_Witness == ScenarioRun /\ batch_result.area_counts["A"][2] = 50

\* C8: the result's percentile table has exactly the keys 10, 50 and 90, it
\* names no area that is not configured, and an area without a snapshot for
\* a threshold never reached that threshold.
C8_PercentileKeys ==
    agg_pc = "returned" =>
        /\ DOMAIN batch_result.percentile_for_area = {10, 50, 90}
        /\ \A pct \in {10, 50, 90} :
              /\ DOMAIN batch_result.percentile_for_area[pct] \subseteq AreaNames(named_areas)
              /\ \A name \in AreaNames(named_areas) :
                    name \notin DOMAIN batch_result.percentile_for_area[pct] =>
                        \A i \in 1..Len(points) :
                            batch_result.area_counts[name][i] < pct

\* A result in which one area has all three snapshots and another has none.
C8_Witness ==
    /\ agg_pc = "returned"
    /\ \E a, b \in AreaNames(named_areas) :
          \A pct \in {10, 50, 90} :
              /\ a \in DOMAIN batch_result.percentile_for_area[pct]
              /\ b \notin DOMAIN batch_result.percentile_for_area[pct]

(***************************************************************************)
(* SpecTrack: the frame loop of _build_batch_points_from_results, one      *)
(* frame per step, on results already sorted newest first.                 *)
(***************************************************************************)

MaxFrames == 6

MaxMarksPerFrame == 2

\* What detect_colored_marks may return for a frame: D1 and D2 do not
\* overlap, D3 overlaps D1 with ratio 3/5 and D2 with ratio exactly 2/5.
D1 == DetectedMark(5, 5, 5, 5)

D2 == DetectedMark(15, 5, 5, 5)

D3 == DetectedMark(9, 5, 5, 5)

Detections == {D1, D2, D3}

\* The lists of up to n different detections.
DetectionLists(n) ==
    UNION {{f \in [1..k -> Detections] :
               \A i, j \in 1..k : i # j => f[i] # f[j]} : k \in 0..n}

\* The lists of marks a frame may hold.
FrameInputs == DetectionLists(MaxMarksPerFrame)

\* The _LoadAndDetectResult processed as frame frame_idx of the reverse
\* pass: sampled every 5th image, two seconds apart, newest first.
TrackedResult(fi, marks) ==
    [image_index |-> 5 * (MaxFrames - fi),
     timestamp |-> 2 * (MaxFrames - fi),
     marks |-> marks,
     base_temp_c |-> 20 + (MaxFrames - fi)]

InitTrack ==
    /\ named_areas = <<AreaA, AreaB>>
    /\ TrackIdle
    /\ base_x = None /\ base_y = None /\ reader = None
    /\ batch_sampling_rate = 1 /\ batch_result = None
    /\ RunIdle /\ AggIdle /\ UiIdle /\ OtherIdle

\* lines 347-406: one iteration of the frame loop
TrackStep ==
    /\ frame_idx < MaxFrames
    /\ \E marks \in FrameInputs :
          \E t \in {TrackFrame([active_marks |-> active_marks,
                                retired_bboxes |-> retired_bboxes,
                                allocated |-> allocated],
                               marks, frame_idx)} :
             /\ cur_marks' = marks
             /\ active_marks' = t.active_marks
             /\ retired_bboxes' = t.retired_bboxes
             /\ allocated' = t.allocated
             /\ filtered_marks' = t.filtered_marks
             /\ frame_point' = BatchPoint(TrackedResult(frame_idx, marks),
                                          t.filtered_marks, 0, named_areas)
    /\ frame_idx' = frame_idx + 1
    /\ UNCHANGED <<appVars, runVars, aggVars, uiVars, otherVars>>

NextTrack == TrackStep

SpecTrack == InitTrack /\ [][NextTrack]_vars

(***************************************************************************)
(* Properties of the tracker (checked under SpecTrack).                    *)
(***************************************************************************)

\* C1: no two tracked marks constructed in a run are given the same id, also
\* when one is constructed after earlier marks were retired.
C1_IdsNeverReused ==
    \A i, j \in DOMAIN allocated : i # j => allocated[i] # allocated[j]

\* The detection's bbox overlaps one of the given retired bboxes with a
\* ratio above 2/5.
HitsRetired(mark, retired) ==
    \E i \in DOMAIN retired :
        LET r == BboxOverlapRatio(MarkBbox(mark), retired[i])
        IN 5 * r[1] > 2 * r[2]

\* C2: a detection that overlaps with ratio > 0.4 a bbox retired in an
\* earlier-processed frame is discarded.  In every step of the frame loop:
\* no entry of the frame's output list carries such a detection, the output
\* list has at most one entry per detection that is not such a one, at most
\* that many marks are constructed, no mark seen in this frame carries such
\* a detection, and a frame of such detections alone leaves the active marks
\* as they would be after an empty frame and constructs nothing.
C2_RetiredOverlapDiscarded ==
    [][ LET Disc(m) == HitsRetired(m, retired_bboxes)
            Kept(m) == ~HitsRetired(m, retired_bboxes)
            kept == SelectSeq(cur_marks', Kept)
        IN /\ \A k \in DOMAIN filtered_marks' : ~Disc(filtered_marks'[k].mark)
           /\ Len(filtered_marks') <= Len(kept)
           /\ Len(allocated') - Len(allocated) <= Len(kept)
           /\ \A k \in DOMAIN active_marks' :
                 active_marks'[k].last_seen_frame = frame_idx =>
                    ~Disc(active_marks'[k].mark)
           /\ kept = <<>> =>
                 /\ allocated' = allocated
                 /\ filtered_marks' = <<>>
                 /\ \A k \in DOMAIN active_marks' :
                       \E n \in DOMAIN active_marks :
                           active_marks'[k] = active_marks[n]
      ]_vars

\* A frame in which one detection was discarded and another was kept, with
\* a detection overlapping a retired bbox.
C2_Witness ==
    /\ filtered_marks # <<>>
    /\ Len(filtered_marks) < Len(cur_marks)
    /\ \E k \in DOMAIN cur_marks : HitsRetired(cur_marks[k], retired_bboxes)

(***************************************************************************)
(* Spec: the application state and run_batch_analysis, one step per        *)
(* completed worker task; the handlers run on the one thread that also     *)
(* runs run_batch_analysis, so none of them runs while a batch collects.   *)
(***************************************************************************)

MaxRecFrames == 3

MaxAreas == 2

\* The marks detect_colored_marks finds in image i of the recording.
FrameMarks(i) ==
    IF i % 3 = 0 THEN <<D1>>
    ELSE IF i % 3 = 1 THEN <<D1, D2>>
    ELSE <<D2>>

\* A RecordingReader over the first n frames of the recording: frames two
\* seconds apart, the first at ts_start.
Recording(n) ==
    [ts_start |-> 10,
     frame_count |-> n,
     frames |-> [k \in 1..n |->
                    [ts |-> 10 + 2 * (k - 1),
                     marks |-> FrameMarks(k - 1),
                     base_temp_c |-> 20 + k,
                     readable |-> TRUE]]]

\* The same recording with the first two frames stamped with the same time.
RecordingTied(n) ==
    [Recording(n) EXCEPT
        !.frames = [k \in 1..n |-> IF k = 2 THEN [@[k] EXCEPT !.ts = 10] ELSE @[k]]]

\* The same recording with a last frame that read_frame returns None for.
RecordingBroken(n) ==
    [Recording(n) EXCEPT
        !.frames = [k \in 1..n |->
                       IF k = n THEN [@[k] EXCEPT !.readable = FALSE] ELSE @[k]]]

\* What on_sampling_rate_change and the settings file may carry.
SamplingInputs == {0, 1, 2, 200}

\* max(min_value, min(max_value, int(value)))
ClampInt(value, min_value, max_value) == Max(min_value, Min(max_value, value))

\* The base point a settings file holds.
BasePoint == [x |-> 3, y |-> 4]

Init ==
    /\ base_x = None /\ base_y = None
    /\ named_areas = <<>>
    /\ reader = None
    /\ batch_sampling_rate \in {ClampInt(v, 1, 100) : v \in SamplingInputs}
    /\ batch_result = None
    /\ RunIdle /\ TrackIdle /\ AggIdle /\ UiIdle /\ OtherIdle

Idle == pc = "idle"

\* settings_io: a key that is present sets its field, clamped
LoadSettings ==
    /\ Idle
    /\ \E has_x, has_y \in BOOLEAN :
          /\ base_x' = IF has_x THEN Some(ClampInt(BasePoint.x, 0, 10^9)) ELSE base_x
          /\ base_y' = IF has_y THEN Some(ClampInt(BasePoint.y, 0, 10^9)) ELSE base_y
    /\ \E has_sampling \in BOOLEAN, sampling \in SamplingInputs :
          batch_sampling_rate' = IF has_sampling
                                 THEN ClampInt(sampling, 1, 100)
                                 ELSE batch_sampling_rate
    /\ UNCHANGED <<named_areas, reader, batch_result, runVars, trackVars, aggVars, uiVars,
                   otherVars>>

\* on_sampling_rate_change
OnSamplingRateChange ==
    /\ Idle
    /\ \E app_data \in SamplingInputs :
          batch_sampling_rate' = Max(1, Min(100, app_data))
    /\ UNCHANGED <<base_x, base_y, named_areas, reader, batch_result,
                   runVars, trackVars, aggVars, uiVars, otherVars>>

\* create_named_area
CreateNamedArea ==
    /\ Idle
    /\ Len(named_areas) < MaxAreas
    /\ \E area \in {AreaA, AreaB} : named_areas' = Append(named_areas, area)
    /\ UNCHANGED <<base_x, base_y, reader, batch_sampling_rate, batch_result,
                   runVars, trackVars, aggVars, uiVars, otherVars>>

\* delete_named_area with an index in range
DeleteNamedArea ==
    /\ Idle
    /\ \E index \in 0..(Len(named_areas) - 1) :
          named_areas' = SubSeq(named_areas, 1, index)
                            \o SubSeq(named_areas, index + 2, Len(named_areas))
    /\ UNCHANGED <<base_x, base_y, reader, batch_sampling_rate, batch_result,
                   runVars, trackVars, aggVars, uiVars, otherVars>>

\* open_selected_recording of the recording or of an empty one: an empty
\* recording is closed again
OpenSelectedRecording ==
    /\ Idle
    /\ \E n \in {0, MaxRecFrames} :
          /\ reader' = IF Recording(n).frame_count = 0 THEN None ELSE Recording(n)
          /\ recording_frame_count' = n
          /\ recording_frame_index' = Max(0, Min(n - 1, recording_frame_index))
    /\ UNCHANGED <<base_x, base_y, named_areas, batch_sampling_rate, batch_result,
                   runVars, trackVars, aggVars, uiVars, clockVars, bboxVars,
                   legacyVars, camVars, selected_recording_path>>

\* close_recording_reader
CloseRecordingReader ==
    /\ Idle
    /\ reader # None
    /\ reader' = None
    /\ recording_frame_count' = 0
    /\ recording_frame_index' = 0
    /\ UNCHANGED <<base_x, base_y, named_areas, batch_sampling_rate, batch_result,
                   runVars, trackVars, aggVars, uiVars, clockVars, bboxVars,
                   legacyVars, camVars, selected_recording_path>>

\* A caller of the service that assigns RecordingState.reader itself, as
\* the code under test allows: also a reader without frames.
AssignReader ==
    /\ Idle
    /\ reader' = Recording(0)
    /\ UNCHANGED <<base_x, base_y, named_areas, batch_sampling_rate, batch_result,
                   runVars, trackVars, aggVars, uiVars, otherVars>>

\* The prerequisite checks with the named-area check left out.
PrerequisitesMetWithoutAreas ==
    /\ base_x # None /\ base_y # None
    /\ reader # None /\ reader.frame_count # 0

\* run_batch_analysis, lines 518-526: none of the three early returns taken
PrerequisitesMet ==
    /\ base_x # None /\ base_y # None
    /\ named_areas # <<>>
    /\ reader # None /\ reader.frame_count # 0

\* sampling_rate = max(1, min(100, app_state.analysis.batch_sampling_rate))
SamplingRate == Max(1, Min(100, batch_sampling_rate))

\* The range without a last stride shorter than sampling_rate.
IndicesOfWholeStrides(frame_count, sampling_rate) ==
    {i \in 0..(frame_count - 1) :
        i % sampling_rate = 0 /\ i + sampling_rate <= frame_count}

\* list(range(0, reader.frame_count, sampling_rate)), as a set
IndicesToProcess(frame_count, sampling_rate) ==
    {i \in 0..(frame_count - 1) : i % sampling_rate = 0}

\* _load_and_detect of image image_index
LoadAndDetect(rd, image_index) ==
    [image_index |-> image_index,
     timestamp |-> rd.frames[image_index + 1].ts,
     marks |-> rd.frames[image_index + 1].marks,
     base_temp_c |-> rd.frames[image_index + 1].base_temp_c]

\* str(n) of a non-negative integer, as the f-strings format it
Digits == <<"0", "1", "2", "3", "4", "5", "6", "7", "8", "9">>

RECURSIVE DecimalString(_)
DecimalString(n) ==
    IF n < 10 THEN Digits[n + 1]
    ELSE DecimalString(n \div 10) \o Digits[(n % 10) + 1]

\* f"Batch analysis: {current}/{total} images..."
StatusProgress(current, total) ==
    "Batch analysis: " \o DecimalString(current) \o "/" \o DecimalString(total)
        \o " images..."

\* f"Batch analysis complete: {len(batch_result.timestamps)} samples"
StatusComplete(result) ==
    "Batch analysis complete: " \o DecimalString(Len(result.timestamps)) \o " samples"

\* What on_batch_analyze_clicked shows after run_batch_analysis returned.
StatusAfterRun(result) ==
    IF result # None THEN StatusComplete(result) ELSE "Batch analysis failed"

\* The seconds between two reports, in tenths (line 438).
ProgressInterval == 3

\* A report that is due at every turn.
ProgressDueAlways(t, last) == TRUE

\* now - last_progress_time > 0.3
ProgressDue(t, last) == t - last > ProgressInterval

\* A worker task that never raises.
TaskNeverRaises(rd, image_index) == FALSE

\* _load_and_detect raises: read_frame returned None
TaskRaises(rd, image_index) == ~rd.frames[image_index + 1].readable

\* run_batch_analysis up to the submission of the worker tasks: an early
\* return, or one future per index to process.
StartRun ==
    /\ results' = <<>> /\ progress_calls' = <<>> /\ completion_order' = <<>>
    /\ IF PrerequisitesMet
       THEN /\ pending' = IndicesToProcess(reader.frame_count, SamplingRate)
            /\ pc' = "collecting"
            /\ run_outcome' = "running"
       ELSE /\ pending' = {}
            /\ pc' = "idle"
            /\ run_outcome' = "noop"

\* run_batch_analysis called by another caller than the button's handler
RunBatchAnalysis ==
    /\ Idle
    /\ StartRun
    /\ UNCHANGED <<appVars, trackVars, aggVars, uiVars, otherVars>>

\* on_batch_analyze_clicked up to the point where run_batch_analysis either
\* has returned early or waits for its worker tasks; a disabled button calls
\* no handler.
OnBatchAnalyzeClicked ==
    /\ Idle
    /\ button_enabled
    /\ IF base_x = None \/ base_y = None
       THEN /\ status_text' = "Please select a base point first (click on image)"
            /\ UNCHANGED <<runVars, button_enabled, button_label, handler_active>>
       ELSE IF Len(named_areas) = 0
       THEN /\ status_text' = "Please create at least one named area first"
            /\ UNCHANGED <<runVars, button_enabled, button_label, handler_active>>
       ELSE /\ StartRun
            /\ IF PrerequisitesMet
               THEN /\ button_enabled' = FALSE
                    /\ button_label' = "Analyzing..."
                    /\ handler_active' = TRUE
                    /\ UNCHANGED status_text
               ELSE /\ button_enabled' = TRUE
                    /\ button_label' = "Analyze Recording"
                    /\ handler_active' = FALSE
                    /\ status_text' = StatusAfterRun(batch_result)
    /\ UNCHANGED <<appVars, trackVars, aggVars, area_mark_counts, otherVars>>

\* The body of "for fut in as_completed(futures)" for the task of image i,
\* report telling whether it calls progress_callback.  fut.result() of a
\* task that raised raises again: the exception leaves
\* _collect_batch_points, run_batch_analysis and, when the handler called
\* it, the handler, whose remaining statements do not run.  Otherwise the
\* result is appended.
CompleteTask(i, report) ==
    IF TaskRaises(reader, i)
    THEN /\ pending' = {}
         /\ results' = <<>> /\ progress_calls' = <<>>
         /\ completion_order' = Append(completion_order, i)
         /\ pc' = "idle"
         /\ run_outcome' = "raised"
         /\ handler_active' = FALSE
         /\ UNCHANGED status_text
    ELSE /\ pending' = pending \ {i}
         /\ results' = Append(results, LoadAndDetect(reader, i))
         /\ completion_order' = Append(completion_order, i)
         /\ LET current == Len(results) + 1
                total == Cardinality(IndicesToProcess(reader.frame_count,
                                                      SamplingRate))
            IN IF report
               THEN /\ progress_calls' = Append(progress_calls, <<current, total>>)
                    /\ status_text' =
                          IF handler_active
                          THEN StatusProgress(current, total)
                          ELSE status_text
               ELSE UNCHANGED <<progress_calls, status_text>>
         /\ UNCHANGED <<pc, run_outcome, handler_active>>

\* One turn of the loop with a callback given: any pending task may be the
\* next to complete, and whether 0.3 s have passed since the last report is
\* up to the clock.
WorkerComplete ==
    /\ pc = "collecting"
    /\ \E i \in pending : \E due \in BOOLEAN : CompleteTask(i, due)
    /\ UNCHANGED <<appVars, trackVars, aggVars, button_enabled, button_label,
                   area_mark_counts, otherVars>>

\* All tasks done: the tracker, the aggregator and the store of the result;
\* then, in the handler, the button and the status text.
FinishBatch ==
    /\ pc = "collecting"
    /\ pending = {}
    /\ \E result \in {BuildBatchResult(
                         BuildBatchPointsFromResults(results, reader.ts_start,
                                                     named_areas),
                         named_areas)} :
          /\ batch_result' = result
          /\ IF handler_active
             THEN /\ button_enabled' = TRUE
                  /\ button_label' = "Analyze Recording"
                  /\ status_text' = StatusAfterRun(result)
             ELSE UNCHANGED <<button_enabled, button_label, status_text>>
    /\ handler_active' = FALSE
    /\ results' = <<>> /\ progress_calls' = <<>>
    /\ pc' = "idle"
    /\ run_outcome' = "stored"
    /\ UNCHANGED <<base_x, base_y, named_areas, reader, batch_sampling_rate,
                   pending, completion_order, trackVars, aggVars, area_mark_counts,
                   otherVars>>

Next ==
    \/ LoadSettings
    \/ OnSamplingRateChange
    \/ CreateNamedArea
    \/ DeleteNamedArea
    \/ OpenSelectedRecording
    \/ CloseRecordingReader
    \/ AssignReader
    \/ RunBatchAnalysis
    \/ WorkerComplete
    \/ FinishBatch

Spec == Init /\ [][Next]_vars

(***************************************************************************)
(* Properties of run_batch_analysis (checked under Spec).                  *)
(***************************************************************************)

\* The image indices a run processed, in ascending order: the recording's
\* frames are in chronological order, so this is the chronological order of
\* the sampled frames.
SampledIndices(order) == SetToSeq(Range(order))

\* The result of the run had the tasks completed in the order of their
\* image indices.
InOrderResult(rd, areas, order) ==
    LET idx == SampledIndices(order)
    IN BuildBatchResult(
           BuildBatchPointsFromResults(
               [k \in 1..Len(idx) |-> LoadAndDetect(rd, idx[k])],
               rd.ts_start, areas),
           areas)

\* C9: whatever the order in which the worker tasks completed, the stored
\* result's timestamps are in non-decreasing order, timestamps[i] is the
\* time of the i-th sampled frame in chronological order, and each area's
\* list holds at i the value computed for that frame, the one an in-order
\* run computes there.
C9_ChronologicalAndAligned ==
    [][ (pc = "collecting" /\ pc' = "idle") =>
          LET idx == SampledIndices(completion_order)
              res == batch_result'
              ref == InOrderResult(reader, named_areas, completion_order)
          IN /\ Len(res.timestamps) = Len(idx)
             /\ \A i \in 1..(Len(idx) - 1) : res.timestamps[i] <= res.timestamps[i + 1]
             /\ \A i \in 1..Len(idx) :
                   res.timestamps[i] = reader.frames[idx[i] + 1].ts - reader.ts_start
             /\ DOMAIN res.area_counts = AreaNames(named_areas)
             /\ \A name \in AreaNames(named_areas) :
                   /\ Len(res.area_counts[name]) = Len(idx)
                   /\ \A i \in 1..Len(idx) :
                         res.area_counts[name][i] = ref.area_counts[name][i]
      ]_vars

\* A stored result of a run over three or more frames whose tasks completed
\* neither in ascending nor in descending order.
C9_Witness ==
    /\ run_outcome = "stored"
    /\ Len(completion_order) >= 3
    /\ \E i, j \in DOMAIN completion_order :
          i < j /\ completion_order[i] < completion_order[j]
    /\ \E i, j \in DOMAIN completion_order :
          i < j /\ completion_order[i] > completion_order[j]

\* base_x or base_y unset, no named area, no reader, or a reader without
\* frames.
CalledUnready ==
    \/ base_x = None \/ base_y = None
    \/ Len(named_areas) = 0
    \/ reader = None
    \/ reader.frame_count = 0

\* C10: a call of run_batch_analysis in such a state returns at once: no
\* task is dispatched, the progress callback is not called, batch_result is
\* left exactly as it was; and so no stored result ever has zero areas.
C10_NoOpWithoutPrerequisites ==
    /\ [][ (RunBatchAnalysis /\ CalledUnready) =>
              /\ pc' = "idle" /\ run_outcome' = "noop"
              /\ pending' = {}
              /\ progress_calls' = <<>>
              /\ batch_result' = batch_result
       ]_vars
    /\ [](batch_result # None => DOMAIN batch_result.area_counts # {})

\* An early return that left an earlier result in place.
C10_Witness ==
    /\ run_outcome = "noop"
    /\ batch_result # None
    /\ CalledUnready

(***************************************************************************)
(* SpecRun: the "Analyze Recording" button and run_batch_analysis over     *)
(* recordings with distinct timestamps, with two frames of the same        *)
(* timestamp, and with a frame that cannot be read.                        *)
(***************************************************************************)

RunRecordings ==
    {Recording(MaxRecFrames), RecordingTied(MaxRecFrames),
     RecordingBroken(MaxRecFrames)}

InitRun ==
    /\ base_x = Some(BasePoint.x)
    /\ base_y \in {None, Some(BasePoint.y)}
    /\ named_areas \in {<<>>, <<AreaA>>}
    /\ reader \in {None} \cup RunRecordings
    /\ batch_sampling_rate = 1
    /\ batch_result = None
    /\ RunIdle /\ TrackIdle /\ AggIdle /\ UiIdle /\ OtherIdle

\* open_selected_recording of one of the recordings
OpenRecording ==
    /\ Idle
    /\ \E rd \in RunRecordings : reader' = rd
    /\ UNCHANGED <<base_x, base_y, named_areas, batch_sampling_rate, batch_result,
                   runVars, trackVars, aggVars, uiVars, otherVars>>

NextRun ==
    \/ OnSamplingRateChange
    \/ OpenRecording
    \/ OnBatchAnalyzeClicked
    \/ RunBatchAnalysis
    \/ WorkerComplete
    \/ FinishBatch

SpecRun == InitRun /\ [][NextRun]_vars

(***************************************************************************)
(* Properties of a failing run (checked under SpecRun).                    *)
(***************************************************************************)

\* The indices range(0, frame_count, k) for k = min(100, max(1, s)),
\* written as the multiples of k below frame_count.
StrideIndices(frame_count, s) ==
    LET k == Min(100, Max(1, s))
    IN {j * k : j \in {j \in 0..frame_count : j * k < frame_count}}

\* The run under way samples a frame that cannot be read.
SamplesUnreadableFrame ==
    /\ pc = "collecting"
    /\ \E i \in StrideIndices(reader.frame_count, batch_sampling_rate) :
          ~reader.frames[i + 1].readable

\* C11: a run that samples a frame whose reading fails never stores a
\* result: every step of it leaves batch_result as it was, and when it ends
\* it ends by raising to its caller.
C11_FailedRunStoresNothing ==
    [][SamplesUnreadableFrame =>
          /\ batch_result' = batch_result
          /\ pc' = "idle" => run_outcome' = "raised"]_vars

\* A run raised after another frame had been read and detected, with the
\* result of an earlier run in place.
C11_Witness ==
    /\ run_outcome = "raised"
    /\ Len(completion_order) >= 2
    /\ batch_result # None

(***************************************************************************)
(* Properties of the sampled indices (checked under SpecRun).              *)
(***************************************************************************)

\* C12: a run over N > 0 frames with sampling rate s dispatches exactly the
\* indices 0, k, 2k, ... below N, k = min(100, max(1, s)); each of them
\* completes exactly once, and a run that succeeds stores exactly one
\* timestamp and one count per area for each of them.
C12_OneTaskAndPointPerIndex ==
    [][LET dispatched == StrideIndices(reader.frame_count, batch_sampling_rate)
       IN /\ (pc = "idle" /\ pc' = "collecting") => pending' = dispatched
          /\ (pc = "collecting" /\ run_outcome' = "stored") =>
                /\ Range(completion_order) = dispatched
                /\ Len(completion_order) = Cardinality(dispatched)
                /\ Len(batch_result'.timestamps) = Cardinality(dispatched)
                /\ \A a \in DOMAIN batch_result'.area_counts :
                      Len(batch_result'.area_counts[a]) = Cardinality(dispatched)]_vars

\* A run with sampling rate 2 over three frames stored two points, the
\* last frame's task having completed first.
C12_Witness ==
    /\ run_outcome = "stored"
    /\ batch_sampling_rate = 2
    /\ completion_order = <<2, 0>>
    /\ Len(batch_result.timestamps) = 2

(***************************************************************************)
(* SpecMembership: count_marks_in_areas and find_marks_in_areas applied to *)
(* lists of areas and of marks drawn from bounded families.  AreaA and     *)
(* AreaB overlap; the third area has AreaA's name and lies elsewhere.      *)
(***************************************************************************)

MembershipAreas == {AreaA, AreaB, NamedArea("A", 30, 0, 10, 10)}

\* Marks centred inside AreaA alone, inside AreaA and AreaB, on the corner
\* of AreaA, and outside every area.
MembershipMarks ==
    {DetectedMark(5, 5, 5, 5), DetectedMark(15, 5, 5, 5),
     DetectedMark(20, 10, 5, 5), DetectedMark(41, 5, 5, 5)}

\* _TrackedMark(id, mark, _mark_bbox(mark), frame_idx) for each mark of a
\* first frame
TrackedFirstFrame(marks) ==
    [k \in DOMAIN marks |->
        [obj |-> k - 1, id |-> k - 1, mark |-> marks[k],
         bbox |-> MarkBbox(marks[k]), last_seen_frame |-> 0]]

InitMembership ==
    /\ named_areas \in UNION {[1..n -> MembershipAreas] : n \in 0..MaxAreas}
    /\ cur_marks \in UNION {[1..n -> MembershipMarks] : n \in 0..MaxMarksPerFrame}
    /\ filtered_marks = TrackedFirstFrame(cur_marks)
    /\ frame_idx = 0 /\ active_marks = <<>> /\ retired_bboxes = <<>>
    /\ allocated = <<>> /\ frame_point = None
    /\ base_x = None /\ base_y = None /\ reader = None
    /\ batch_sampling_rate = 1 /\ batch_result = None
    /\ RunIdle /\ AggIdle /\ UiIdle /\ OtherIdle

\* area_mark_counts = count_marks_in_areas(marks, named_areas)
CountMarksStep ==
    /\ area_mark_counts' = CountMarksInAreas(cur_marks, named_areas)
    /\ UNCHANGED <<appVars, runVars, trackVars, aggVars, button_enabled,
                   button_label, status_text, handler_active, otherVars>>

\* marks_in_areas = find_marks_in_areas(filtered_marks, named_areas) and the
\* _BatchPoint built from it
FindMarksStep ==
    /\ frame_point = None
    /\ frame_point' = BatchPoint(TrackedResult(0, cur_marks), filtered_marks, 0,
                                 named_areas)
    /\ UNCHANGED <<appVars, runVars, aggVars, uiVars, frame_idx, active_marks,
                   retired_bboxes, allocated, cur_marks, filtered_marks,
                   otherVars>>

NextMembership == CountMarksStep \/ FindMarksStep

SpecMembership == InitMembership /\ [][NextMembership]_vars

(***************************************************************************)
(* Properties of the membership test (checked under SpecMembership).       *)
(***************************************************************************)

\* The centre of the mark lies in the rectangle of the area, its boundary
\* included.
CentreInRectangle(mark, area) ==
    /\ mark.center_x >= area.x /\ mark.center_x <= area.x + area.width
    /\ mark.center_y >= area.y /\ mark.center_y <= area.y + area.height

\* C13: both functions place a mark in an area iff its centre lies in the
\* area's rectangle, boundary included: the result has an entry for every
\* named area, which holds exactly the marks (counts exactly the marks)
\* centred in that area, and the marks and areas are as they were.
C13_MembershipByCentre ==
    [][/\ named_areas' = named_areas /\ cur_marks' = cur_marks
          /\ filtered_marks' = filtered_marks
       /\ CountMarksStep =>
             \A i \in DOMAIN named_areas :
                /\ named_areas[i].name \in DOMAIN area_mark_counts'
                /\ area_mark_counts'[named_areas[i].name] =
                      Cardinality({k \in DOMAIN cur_marks :
                                      CentreInRectangle(cur_marks[k], named_areas[i])})
       /\ FindMarksStep =>
             \A i \in DOMAIN named_areas :
                /\ named_areas[i].name \in DOMAIN frame_point'.marks_in_areas
                /\ \A k \in DOMAIN filtered_marks :
                      (\E j \in DOMAIN frame_point'.marks_in_areas[named_areas[i].name] :
                          frame_point'.marks_in_areas[named_areas[i].name][j]
                             = filtered_marks[k])
                      <=> CentreInRectangle(filtered_marks[k].mark, named_areas[i])
      ]_vars

(***************************************************************************)
(* Properties of the "Analyze Recording" button (checked under SpecRun).   *)
(***************************************************************************)

\* C14: when the run the handler started fails, the handler shows the
\* failure in the status text, and whenever no run is under way the button
\* is enabled and labelled 'Analyze Recording'.
C14_ButtonRestoredAfterFailure ==
    /\ [][(handler_active /\ run_outcome' = "raised") =>
             status_text' = "Batch analysis failed"]_vars
    /\ [](pc = "idle" =>
             button_enabled /\ button_label = "Analyze Recording")

(***************************************************************************)
(* SpecAreas: the named areas under create_named_area, delete_named_area   *)
(* and the handlers of the area list and of the name popup.  The text of   *)
(* the popup's input is a sequence of characters.                          *)
(***************************************************************************)

\* str.strip() of a text of letters and spaces
RECURSIVE Strip(_)
Strip(chars) ==
    IF chars = <<>> THEN <<>>
    ELSE IF Head(chars) = " " THEN Strip(Tail(chars))
    ELSE IF chars[Len(chars)] = " " THEN Strip(SubSeq(chars, 1, Len(chars) - 1))
    ELSE chars

\* The characters as one string
RECURSIVE JoinChars(_)
JoinChars(chars) ==
    IF chars = <<>> THEN "" ELSE Head(chars) \o JoinChars(Tail(chars))

\* What the user may have typed into the popup
TypedNames == {<<>>, <<" ">>, <<"A">>, <<" ", "B">>}

\* The rectangles the user may have dragged: (x, y, width, height)
PopupBounds == {<<0, 0, 20, 10>>, <<10, 0, 30, 10>>}

InitAreas ==
    /\ named_areas = <<>>
    /\ base_x = None /\ base_y = None /\ reader = None
    /\ batch_sampling_rate = 1 /\ batch_result = None
    /\ RunIdle /\ TrackIdle /\ AggIdle /\ UiIdle /\ OtherIdle

\* show_area_name_popup.on_confirm
OnConfirm ==
    /\ Len(named_areas) < MaxAreas
    /\ \E typed \in TypedNames, bounds \in PopupBounds :
          LET stripped == JoinChars(Strip(typed))
              name == IF stripped = ""
                      THEN "Area " \o DecimalString(Len(named_areas) + 1)
                      ELSE stripped
          IN /\ named_areas' =
                   Append(named_areas,
                          NamedArea(name, bounds[1], bounds[2], bounds[3], bounds[4]))
             /\ status_text' =
                   "Created area '" \o name \o "' at (" \o DecimalString(bounds[1])
                      \o ", " \o DecimalString(bounds[2]) \o ") size "
                      \o DecimalString(bounds[3]) \o "x" \o DecimalString(bounds[4])
    /\ UNCHANGED <<base_x, base_y, reader, batch_sampling_rate, batch_result,
                   runVars, trackVars, aggVars, button_enabled, button_label,
                   handler_active, area_mark_counts, otherVars>>

\* update_areas_list.delete_area: the "X" button of the area at index
DeleteArea ==
    /\ \E index \in 0..(Len(named_areas) - 1) :
          /\ named_areas' = SubSeq(named_areas, 1, index)
                               \o SubSeq(named_areas, index + 2, Len(named_areas))
          /\ status_text' = "Deleted area '" \o named_areas[index + 1].name \o "'"
    /\ UNCHANGED <<base_x, base_y, reader, batch_sampling_rate, batch_result,
                   runVars, trackVars, aggVars, button_enabled, button_label,
                   handler_active, area_mark_counts, otherVars>>

NextAreas ==
    \/ CreateNamedArea
    \/ DeleteNamedArea
    \/ OnConfirm
    \/ DeleteArea

SpecAreas == InitAreas /\ [][NextAreas]_vars

(***************************************************************************)
(* Properties of the named areas (checked under SpecAreas).                *)
(***************************************************************************)

\* C15: after any sequence of creations and deletions no two areas of
\* named_areas have the same name.
C15_AreaNamesUnique ==
    \A i, j \in DOMAIN named_areas :
       i # j => named_areas[i].name # named_areas[j].name

(***************************************************************************)
(* Properties of the matching within a frame (checked under SpecTrack).    *)
(* DuringFrame(k) is the state of the loop over the frame's detections     *)
(* after its first k detections, in a step from frame frame_idx to the     *)
(* next one.                                                               *)
(***************************************************************************)

DuringFrame(k) ==
    TrackMarks([active_marks |-> active_marks,
                matched_active |-> {},
                filtered |-> <<>>,
                allocated |-> allocated],
               SubSeq(cur_marks', 1, k), frame_idx, retired_bboxes)

\* The states of the loop from fs on: before the first of the detections
\* marks, after the first, ..., after the last.
RECURSIVE LoopStates(_, _)
LoopStates(fs, marks) ==
    IF marks = <<>> THEN <<fs>>
    ELSE <<fs>> \o LoopStates(TrackMark(fs, Head(marks), frame_idx, retired_bboxes),
                              Tail(marks))

\* DuringFrame(0), ..., DuringFrame(Len(cur_marks')), as a sequence
FrameStates == LoopStates(DuringFrame(0), cur_marks')

\* The 0-based positions of the active marks that detection k updated,
\* st being FrameStates.
UpdatedBy(st, k) ==
    {p \in 0..(Len(st[k].active_marks) - 1) :
        st[k + 1].active_marks[p + 1] # st[k].active_marks[p + 1]}

\* ratio a <= ratio b, for ratios <<numerator, denominator>>
RatioLeq(a, b) == a[1] * b[2] <= b[1] * a[2]

\* C16: within a frame an active mark is updated by at most one detection,
\* and the detection that updates it overlaps its bbox with a ratio
\* strictly above 0.4 (above 2/5) that no active mark not yet matched in
\* the frame exceeds; a detection updates at most one mark.
C16_MatchedOnceAboveThreshold ==
    [][\E st \in {FrameStates} :
          \A k \in DOMAIN cur_marks' :
             LET bbox == MarkBbox(cur_marks'[k])
                 Ratio(p) == BboxOverlapRatio(bbox, st[k].active_marks[p + 1].bbox)
             IN /\ Cardinality(UpdatedBy(st, k)) <= 1
                /\ \A p \in UpdatedBy(st, k) :
                      /\ \A j \in 1..(k - 1) : p \notin UpdatedBy(st, j)
                      /\ 5 * Ratio(p)[1] > 2 * Ratio(p)[2]
                      /\ \A q \in 0..(Len(st[k].active_marks) - 1) :
                            (\A j \in 1..(k - 1) : q \notin UpdatedBy(st, j))
                               => RatioLeq(Ratio(q), Ratio(p))]_vars

\* A frame <<D1, D3>> after both D1 and D2 were tracked: D1 updated its
\* mark, and D3, whose ratio with the mark of D2 (the one mark left
\* unmatched) is exactly 0.4, did not update it but became a new mark.
C16_Witness ==
    /\ cur_marks = <<D1, D3>>
    /\ 5 * BboxOverlapRatio(MarkBbox(D3), MarkBbox(D2))[1]
          = 2 * BboxOverlapRatio(MarkBbox(D3), MarkBbox(D2))[2]
    /\ \E a, b, c \in DOMAIN active_marks :
          /\ active_marks[a].mark = D1 /\ active_marks[a].last_seen_frame = frame_idx - 1
          /\ active_marks[b].mark = D2 /\ active_marks[b].last_seen_frame < frame_idx - 1
          /\ active_marks[c].mark = D3 /\ active_marks[c].last_seen_frame = frame_idx - 1
          /\ active_marks[a].obj < active_marks[b].obj
          /\ active_marks[b].obj < active_marks[c].obj

(***************************************************************************)
(* Properties of the retirement pass (checked under SpecTrack).            *)
(***************************************************************************)

\* The objects of a list of tracked marks.
Objs(marks) == {marks[k].obj : k \in DOMAIN marks}

\* C17: after the detections of a frame are processed, exactly the active
\* marks with frame_idx - last_seen_frame > 3 leave the active list, their
\* bboxes appended to retired_bboxes in order, and every other mark stays;
\* a mark that has left the active list is never in it again nor in a
\* frame's output list, and retired_bboxes keeps what it held.
C17_RetiredAfterThreeFrames ==
    [][\E loop_end \in {DuringFrame(Len(cur_marks')).active_marks} :
       LET Stale(tm) == frame_idx - tm.last_seen_frame > 3
           Fresh(tm) == frame_idx - tm.last_seen_frame <= 3
           stale == SelectSeq(loop_end, Stale)
           retired_objs == (0..(Len(allocated) - 1)) \ Objs(active_marks)
       IN /\ active_marks' = SelectSeq(loop_end, Fresh)
          /\ retired_bboxes' = retired_bboxes \o [k \in DOMAIN stale |-> stale[k].bbox]
          /\ Objs(active_marks') \cap retired_objs = {}
          /\ Objs(filtered_marks') \cap retired_objs = {}]_vars

\* A mark has been retired, and a mark last seen exactly 3 frames before
\* the frame just processed is still active.
C17_Witness ==
    /\ retired_bboxes # <<>>
    /\ \E k \in DOMAIN active_marks :
          (frame_idx - 1) - active_marks[k].last_seen_frame = 3

(***************************************************************************)
(* Properties of a frame's output list (checked under SpecTrack).          *)
(***************************************************************************)

\* C18: a frame's output list has exactly one entry per detection that the
\* retired-overlap test did not discard, in the order of the detections:
\* the mark the detection updated or, when it updated none, a mark
\* constructed for it, which carries the detection and the current frame
\* index as last_seen_frame.  A discarded detection adds no entry.
C18_OneEntryPerKeptDetection ==
    [][\E st \in {FrameStates} :
          /\ \A k \in DOMAIN cur_marks' :
                LET before == st[k]
                    after == st[k + 1]
                    entry == after.filtered[Len(after.filtered)]
                IN IF HitsRetired(cur_marks'[k], retired_bboxes)
                   THEN after.filtered = before.filtered
                   ELSE /\ Len(after.filtered) = Len(before.filtered) + 1
                        /\ SubSeq(after.filtered, 1, Len(before.filtered))
                              = before.filtered
                        /\ \/ UpdatedBy(st, k) = {entry}
                           \/ /\ UpdatedBy(st, k) = {}
                              /\ entry = Len(before.active_marks)
                              /\ Len(after.active_marks) = Len(before.active_marks) + 1
                              /\ Len(after.allocated) = Len(before.allocated) + 1
                              /\ after.active_marks[entry + 1].obj = Len(before.allocated)
                              /\ after.active_marks[entry + 1].mark = cur_marks'[k]
                              /\ after.active_marks[entry + 1].last_seen_frame = frame_idx
          /\ LET loop_end == st[Len(st)]
             IN /\ Len(filtered_marks') = Len(loop_end.filtered)
                /\ \A j \in DOMAIN filtered_marks' :
                      filtered_marks'[j].obj
                         = loop_end.active_marks[loop_end.filtered[j] + 1].obj]_vars

\* A frame of two detections: the first updated a mark constructed before
\* another mark that was last seen in an earlier frame, the second matched
\* nothing and is in the output list as the mark constructed last.
C18_Witness ==
    /\ Len(cur_marks) = 2 /\ Len(filtered_marks) = 2
    /\ \E b \in DOMAIN active_marks :
          /\ active_marks[b].last_seen_frame < frame_idx - 1
          /\ filtered_marks[1].obj < active_marks[b].obj
          /\ active_marks[b].obj < filtered_marks[2].obj
    /\ filtered_marks[2].obj = Len(allocated) - 1
    /\ filtered_marks[2].mark = cur_marks[2]
    /\ filtered_marks[2].last_seen_frame = frame_idx - 1

(***************************************************************************)
(* Properties of the completion order (checked under SpecRun).             *)
(***************************************************************************)

\* C19: the result a run stores does not depend on the order in which its
\* worker tasks completed, also when two sampled frames carry the same
\* timestamp: it is the result of the run whose tasks complete in the order
\* of their image indices, so any two runs over the same recording, areas
\* and sampling rate store identical results.
C19_ResultIndependentOfCompletionOrder ==
    [][(pc = "collecting" /\ run_outcome' = "stored") =>
          batch_result' = InOrderResult(reader, named_areas, completion_order)]_vars

(***************************************************************************)
(* Properties of the percent curves (checked under SpecAgg).               *)
(***************************************************************************)

\* C20: every area's percent list, while it is built and in the result, is
\* non-decreasing over the chronological points, and in the result the
\* last value of an area that held a tracked mark at some point is 100.
C20_CurveNonDecreasingTo100 ==
    AggRunning =>
        \A name \in DOMAIN CountsSoFar :
            LET curve == CountsSoFar[name]
            IN /\ \A i \in 1..(Len(curve) - 1) : curve[i] <= curve[i + 1]
               /\ (/\ agg_pc = "returned"
                   /\ \E j \in DOMAIN points : points[j].marks_in_areas[name] # <<>>)
                     => curve[Len(curve)] = 100

\* A result whose curve for some area rises to 100 although a later point
\* holds fewer marks in the area than the point before it.
C20_Witness ==
    /\ agg_pc = "returned"
    /\ \E name \in DOMAIN batch_result.area_counts :
          LET curve == batch_result.area_counts[name]
          IN /\ Len(curve) >= 2
             /\ curve[1] < curve[Len(curve)]
             /\ curve[Len(curve)] = 100
             /\ \E j \in 1..(Len(points) - 1) :
                   Len(points[j + 1].marks_in_areas[name])
                      < Len(points[j].marks_in_areas[name])

(***************************************************************************)
(* SpecProgress: _collect_batch_points with its clock.  time.monotonic()   *)
(* counts from an unspecified point, so the first reading is small or      *)
(* large; between two turns of the loop no time, exactly 0.3 s or more     *)
(* passes.                                                                 *)
(***************************************************************************)

MaxClock == 5

ClockSteps == {0, ProgressInterval, ProgressInterval + 1}

InitProgress ==
    /\ base_x = Some(BasePoint.x) /\ base_y = Some(BasePoint.y)
    /\ named_areas = <<AreaA>>
    /\ reader = Recording(MaxRecFrames)
    /\ batch_sampling_rate \in {1, 2}
    /\ batch_result = None
    /\ now \in {0, MaxClock}
    /\ last_progress_time = 0
    /\ callback_given \in BOOLEAN
    /\ RunIdle /\ TrackIdle /\ AggIdle /\ UiIdle
    /\ BboxIdle /\ LegacyIdle /\ CamIdle /\ PanelIdle

\* run_batch_analysis(app_state, progress_callback) up to the submission of
\* the tasks: last_progress_time = 0.0
StartTimedRun ==
    /\ Idle
    /\ now <= MaxClock
    /\ StartRun
    /\ callback_given' \in BOOLEAN
    /\ last_progress_time' = 0
    /\ UNCHANGED <<appVars, trackVars, aggVars, uiVars, now, bboxVars,
                   legacyVars, camVars, panelVars>>

\* One turn of the loop, the clock read after fut.result() returned.
TimedWorkerComplete ==
    /\ pc = "collecting"
    /\ \E i \in pending, dt \in ClockSteps :
          LET due == ProgressDue(now + dt, last_progress_time)
          IN /\ CompleteTask(i, due /\ callback_given)
             /\ IF TaskRaises(reader, i)
                THEN UNCHANGED <<now, last_progress_time>>
                ELSE /\ now' = now + dt
                     /\ last_progress_time' =
                           IF due THEN now + dt ELSE last_progress_time
    /\ UNCHANGED <<appVars, trackVars, aggVars, button_enabled, button_label,
                   area_mark_counts, callback_given, bboxVars, legacyVars,
                   camVars, panelVars>>

NextProgress ==
    \/ StartTimedRun
    \/ TimedWorkerComplete
    \/ FinishBatch

SpecProgress == InitProgress /\ [][NextProgress]_vars

(***************************************************************************)
(* Properties of the progress reports (checked under SpecProgress).        *)
(***************************************************************************)

\* C21: progress_callback is called only in a turn of the collecting loop;
\* a call passes the number of results collected so far, which is at least
\* 1, at most the total and more than the call before passed, and the
\* number of sampled frames; a call is at least 0.3 s after the call before
\* it; and nothing is called when no callback was given.
C21_ProgressReports ==
    [][/\ Len(progress_calls') > Len(progress_calls) =>
             LET call == progress_calls'[Len(progress_calls')]
                 sampled == StrideIndices(reader.frame_count, batch_sampling_rate)
             IN /\ pc = "collecting" /\ Len(completion_order') > Len(completion_order)
                /\ Len(progress_calls') = Len(progress_calls) + 1
                /\ call[1] = Len(results')
                /\ 1 <= call[1] /\ call[1] <= call[2]
                /\ call[2] = Cardinality(sampled)
                /\ progress_calls # <<>> =>
                      /\ call[1] > progress_calls[Len(progress_calls)][1]
                      /\ now' - last_progress_time >= 3
       /\ ~callback_given' => progress_calls' = <<>>]_vars

\* Three reports of one run, the last one of the last result.
C21_Witness ==
    /\ pc = "collecting"
    /\ Len(progress_calls) = 3
    /\ progress_calls[3] = <<3, 3>>

(***************************************************************************)
(* SpecBbox: _bbox_overlap_ratio applied to two boxes (x1, y1, x2, y2)     *)
(* with integer corners, boxes of no width or height and boxes with        *)
(* x1 > x2 or y1 > y2 among them.                                          *)
(***************************************************************************)

MaxCoord == 3

BboxInputs == (0..MaxCoord) \X (0..2) \X (0..MaxCoord) \X (0..2)

InitBbox ==
    /\ arg_a \in BboxInputs /\ arg_b \in BboxInputs
    /\ overlap_ratio = None
    /\ ClockIdle
    /\ named_areas = <<>>
    /\ base_x = None /\ base_y = None /\ reader = None
    /\ batch_sampling_rate = 1 /\ batch_result = None
    /\ RunIdle /\ TrackIdle /\ AggIdle /\ UiIdle
    /\ LegacyIdle /\ CamIdle /\ PanelIdle

\* ratio = _bbox_overlap_ratio(bbox, tracked.bbox)
CallBboxOverlapRatio ==
    /\ overlap_ratio = None
    /\ overlap_ratio' = BboxOverlapRatio(arg_a, arg_b)
    /\ UNCHANGED <<appVars, runVars, trackVars, aggVars, uiVars, clockVars,
                   arg_a, arg_b, legacyVars, camVars, panelVars>>

NextBbox == CallBboxOverlapRatio

SpecBbox == InitBbox /\ [][NextBbox]_vars

(***************************************************************************)
(* Properties of the overlap ratio (checked under SpecBbox).               *)
(***************************************************************************)

\* Width times height of a box, 0 for a box without positive width and
\* height.
BoxArea(b) ==
    IF b[3] > b[1] /\ b[4] > b[2] THEN (b[3] - b[1]) * (b[4] - b[2]) ELSE 0

\* The area the two boxes share.
SharedArea(a, b) ==
    LET x1 == IF a[1] > b[1] THEN a[1] ELSE b[1]
        y1 == IF a[2] > b[2] THEN a[2] ELSE b[2]
        x2 == IF a[3] < b[3] THEN a[3] ELSE b[3]
        y2 == IF a[4] < b[4] THEN a[4] ELSE b[4]
    IN IF x2 > x1 /\ y2 > y1 THEN (x2 - x1) * (y2 - y1) ELSE 0

\* C22: the returned ratio is a number (no division by zero); it is 0 when
\* the boxes share no area of positive width and height or one of them has
\* area <= 0, and otherwise the shared area over the smaller of the two
\* areas; swapping the arguments gives the same value; and for boxes with
\* x1 <= x2 and y1 <= y2 it lies between 0 and 1.
C22_OverlapRatio ==
    overlap_ratio # None =>
        LET r == overlap_ratio
            small == IF BoxArea(arg_a) < BoxArea(arg_b)
                     THEN BoxArea(arg_a) ELSE BoxArea(arg_b)
        IN /\ r[2] > 0 /\ r[1] >= 0
           /\ IF SharedArea(arg_a, arg_b) = 0 \/ small <= 0
              THEN r[1] = 0
              ELSE r[1] * small = SharedArea(arg_a, arg_b) * r[2]
           /\ LET swapped == BboxOverlapRatio(arg_b, arg_a)
              IN r[1] * swapped[2] = swapped[1] * r[2]
           /\ (/\ arg_a[1] <= arg_a[3] /\ arg_a[2] <= arg_a[4]
               /\ arg_b[1] <= arg_b[3] /\ arg_b[2] <= arg_b[4])
                 => r[1] <= r[2]

\* A ratio strictly between 0 and 1 of two boxes of different areas.
C22_Witness ==
    /\ overlap_ratio # None
    /\ 0 < overlap_ratio[1] /\ overlap_ratio[1] < overlap_ratio[2]
    /\ BoxArea(arg_a) > BoxArea(arg_b)

(***************************************************************************)
(* SpecLegacy: analysis.run_batch_analysis, the variant that reads the     *)
(* images of a directory.  An image is [marks, readable]; image i was      *)
(* taken i / IMAGES_PER_SECOND seconds after the first.  A timestamp is    *)
(* kept as the quotient [num, den] it is computed from.                    *)
(***************************************************************************)

IMAGES_PER_SECOND == 25

\* The first n images of the directory, all of them loadable.
Images(n) == [k \in 1..n |-> [marks |-> FrameMarks(k - 1), readable |-> TRUE]]

\* The same directory with a second image cv2.imread returns None for.
ImagesBroken(n) ==
    [k \in 1..n |-> IF k = 2 THEN [Images(n)[k] EXCEPT !.readable = FALSE]
                     ELSE Images(n)[k]]

\* analysis._load_and_detect: (image_index, marks), marks None for an image
\* that fails to load
LegacyLoadAndDetect(images, image_index) ==
    IF images[image_index + 1].readable
    THEN <<image_index, Some(images[image_index + 1].marks)>>
    ELSE <<image_index, None>>

\* for area in app_state.named_areas:
\*     area_counts[area.name].append(counts.get(area.name, 0))
RECURSIVE StoreCounts(_, _, _)
StoreCounts(counts_of_area, counts, areas) ==
    IF areas = <<>> THEN counts_of_area
    ELSE LET name == areas[1].name
         IN StoreCounts([counts_of_area EXCEPT ![name] = Append(@, counts[name])],
                        counts, Tail(areas))

\* for area_name in area_counts: area_counts[area_name].append(0)
StoreZeros(counts_of_area) ==
    [name \in DOMAIN counts_of_area |-> Append(counts_of_area[name], 0)]

InitLegacy ==
    /\ selected_color \in {None, Some("red")}
    /\ paths \in {<<>>, Images(MaxRecFrames), ImagesBroken(MaxRecFrames)}
    /\ named_areas \in {<<>>, <<AreaA>>, <<AreaA, AreaB>>}
    /\ batch_sampling_rate \in {1, 2}
    /\ base_x = None /\ base_y = None /\ reader = None
    /\ batch_result = None
    /\ timestamps = <<>> /\ area_counts = None
    /\ RunIdle /\ TrackIdle /\ AggIdle /\ UiIdle
    /\ ClockIdle /\ BboxIdle /\ CamIdle /\ PanelIdle

\* analysis.run_batch_analysis up to the submission of the tasks: one of the
\* three early returns, or one future per index to process.
LegacyRunBatchAnalysis ==
    /\ Idle
    /\ run_outcome = "none"
    /\ results' = <<>> /\ progress_calls' = <<>> /\ completion_order' = <<>>
    /\ IF selected_color = None \/ named_areas = <<>> \/ paths = <<>>
       THEN /\ pending' = {} /\ pc' = "idle" /\ run_outcome' = "noop"
            /\ UNCHANGED <<timestamps, area_counts>>
       ELSE /\ pending' = IndicesToProcess(Len(paths), SamplingRate)
            /\ pc' = "collecting" /\ run_outcome' = "running"
            /\ timestamps' = <<>>
            /\ area_counts' = [name \in AreaNames(named_areas) |-> <<>>]
    /\ UNCHANGED <<appVars, trackVars, aggVars, uiVars, clockVars, bboxVars, camVars,
                   panelVars, selected_color, paths>>

\* One turn of the loop over as_completed(futures): any pending task may be
\* the next to complete.
LegacyWorkerComplete ==
    /\ pc = "collecting"
    /\ area_counts # None
    /\ \E i \in pending : \E due \in BOOLEAN :
          LET done == LegacyLoadAndDetect(paths, i)
              image_index == done[1]
              marks == done[2]
              progress_idx == Len(timestamps) + 1
              total == Cardinality(IndicesToProcess(Len(paths), SamplingRate))
          IN /\ pending' = pending \ {i}
             /\ completion_order' = Append(completion_order, i)
             /\ progress_calls' = IF due
                                  THEN Append(progress_calls, <<progress_idx, total>>)
                                  ELSE progress_calls
             /\ timestamps' = Append(timestamps,
                                     [num |-> image_index, den |-> IMAGES_PER_SECOND])
             /\ area_counts' =
                   IF marks = None
                   THEN StoreZeros(area_counts)
                   ELSE StoreCounts(area_counts,
                                    CountMarksInAreas(marks[1], named_areas),
                                    named_areas)
    /\ UNCHANGED <<appVars, pc, results, run_outcome, trackVars, aggVars, uiVars,
                   clockVars, bboxVars, camVars, panelVars,
                   selected_color, paths>>

\* app_state.batch_result = BatchAnalysisResult(timestamps=timestamps,
\*                                              area_counts=area_counts)
LegacyStoreResult ==
    /\ pc = "collecting"
    /\ area_counts # None
    /\ pending = {}
    /\ batch_result' = [timestamps |-> timestamps, area_counts |-> area_counts]
    /\ pc' = "idle"
    /\ run_outcome' = "stored"
    /\ progress_calls' = <<>>
    /\ UNCHANGED <<base_x, base_y, named_areas, reader, batch_sampling_rate,
                   pending, results, completion_order, trackVars, aggVars, uiVars,
                   clockVars, bboxVars, legacyVars, camVars, panelVars>>

NextLegacy ==
    \/ LegacyRunBatchAnalysis
    \/ LegacyWorkerComplete
    \/ LegacyStoreResult

SpecLegacy == InitLegacy /\ [][NextLegacy]_vars

(***************************************************************************)
(* The stored result of the image-directory variant (checked under         *)
(* SpecLegacy).                                                            *)
(***************************************************************************)

\* a / b <= c / d for quotients of a non-negative by a positive integer
QuotientLeq(q, r) == q.num * r.den <= r.num * q.den

\* C23: whatever the order in which the worker tasks complete, the stored
\* result's timestamps are in non-decreasing order and every area's list of
\* counts holds, at the position of a timestamp, the count of the image with
\* that timestamp.
C23_LegacyChronologicalAndAligned ==
    (run_outcome = "stored" /\ batch_result # None) =>
        /\ \A k \in 1..(Len(batch_result.timestamps) - 1) :
              QuotientLeq(batch_result.timestamps[k], batch_result.timestamps[k + 1])
        /\ \A name \in DOMAIN batch_result.area_counts :
              /\ Len(batch_result.area_counts[name]) = Len(batch_result.timestamps)
              /\ \A k \in 1..Len(batch_result.timestamps) :
                    LET image == paths[batch_result.timestamps[k].num + 1]
                    IN batch_result.area_counts[name][k] =
                          IF image.readable
                          THEN CountMarksInAreas(image.marks, named_areas)[name]
                          ELSE 0

(***************************************************************************)
(* Identities in a frame's output list (checked under SpecTrack).          *)
(***************************************************************************)

\* C24: no tracked mark is in the output list of a frame more than once, and
\* no two entries of the list carry the same id: two detections of one frame
\* never get the same identity, also when the second overlaps the mark
\* constructed for the first.
C24_DistinctIdentitiesInFrame ==
    \A i, j \in DOMAIN filtered_marks :
        i # j => /\ filtered_marks[i].obj # filtered_marks[j].obj
                 /\ filtered_marks[i].id # filtered_marks[j].id

(***************************************************************************)
(* The percentile snapshots of an area (checked under SpecAgg).            *)
(***************************************************************************)

\* C25: in the result, for every area: the snapshots of the thresholds 10,
\* 50 and 90 have non-decreasing timestamps, every snapshot has
\* count_cur <= count_max, and the area either has a snapshot for all three
\* thresholds (its maximum is positive) or for none (its maximum is 0).
C25_PercentileSnapshots ==
    agg_pc = "returned" =>
        \A name \in AreaNames(named_areas) :
            LET table == batch_result.percentile_for_area
                Has(pct) == name \in DOMAIN table[pct]
            IN IF RunMax(name) > 0
               THEN /\ \A pct \in {10, 50, 90} :
                          /\ Has(pct)
                          /\ table[pct][name].count_cur <= table[pct][name].count_max
                          /\ table[pct][name].count_max = RunMax(name)
                    /\ table[10][name].timestamp <= table[50][name].timestamp
                    /\ table[50][name].timestamp <= table[90][name].timestamp
               ELSE \A pct \in {10, 50, 90} : ~Has(pct)

\* A result in which one area got its snapshot for 10 at an earlier point
\* than its snapshot for 90, with fewer marks than its maximum, and another
\* area, which no mark ever entered, got none.
C25_Witness ==
    /\ agg_pc = "returned"
    /\ \E a, b \in AreaNames(named_areas) :
          LET table == batch_result.percentile_for_area
          IN /\ RunMax(a) > 0 /\ RunMax(b) = 0
             /\ a \in DOMAIN table[10] /\ a \in DOMAIN table[50] /\ a \in DOMAIN table[90]
             /\ table[10][a].timestamp < table[90][a].timestamp
             /\ table[10][a].count_cur < table[10][a].count_max
             /\ b \notin DOMAIN table[10]

(***************************************************************************)
(* SpecRecording: the recording panel's Start / Pause / Stop handlers, the *)
(* Camera they call, the camera thread that forwards frames, and the       *)
(* Recorder with its writer thread.  Recorder.__init__ and Recorder.stop   *)
(* take several steps, between which the writer thread may run; the        *)
(* caller holds camera._recorder_lock through them (ui_pc is not "idle").  *)
(* A frame is the number of the camera frame it carries; the file is the   *)
(* list of the items written, <<"ts", k>> or <<"data", k>>.                *)
(***************************************************************************)

MaxRecorders == 2

MaxCamFrames == 3

\* queue.Queue[_RecorderFrame](maxsize=2)
QueueMaxSize == 2

\* recordings_dir / f"recording_{timestamp}.p3dat" at two different seconds
RecordingPaths == {"recording_1.p3dat", "recording_2.p3dat"}

\* The Recorder after lines 67-73 of __init__: the thread is started,
\* _frames_queue, _file and _stats_lock are not assigned yet.  init_pc names
\* the attribute assigned next.
NewRecorder(serial, dest_path) ==
    [serial |-> serial,
     dest_path |-> dest_path,
     init_pc |-> "queue",
     thread |-> "running",
     frames_queue |-> <<>>,
     is_shutdown |-> FALSE,
     frame |-> None,
     file |-> <<>>,
     file_closed |-> FALSE,
     frame_count |-> 0]

QueueAssigned(r) == r.init_pc \in {"file", "lock", "done", "failed"}

FileAssigned(r) == r.init_pc \in {"lock", "done"}

LockAssigned(r) == r.init_pc = "done"

\* A camera that never finds a recorder in place.
AlreadyStartedNever == FALSE

\* start_recording: if self._recorder is not None
AlreadyStarted == recorder # None

\* stop_recording: if self._recorder is None
NotStarted == recorder = None

Call(op, by, outcome) == [op |-> op, by |-> by, outcome |-> outcome]

\* Camera.start_recording up to the start of the writer thread
StartRecording(by) ==
    IF AlreadyStarted
    THEN /\ last_call' = Call("start", by, "ValueError")
         /\ UNCHANGED <<rec, accepted, ui_pc, caller, made>>
    ELSE \E dest_path \in RecordingPaths :
            /\ rec' = NewRecorder(made + 1, dest_path)
            /\ made' = made + 1
            /\ accepted' = <<>>
            /\ ui_pc' = "constructing"
            /\ caller' = by
            /\ last_call' = Call("start", by, "pending")

\* Camera.stop_recording up to self._thread.join()
StopRecording(by) ==
    IF NotStarted
    THEN /\ last_call' = Call("stop", by, "ValueError")
         /\ UNCHANGED <<rec, ui_pc, caller>>
    ELSE /\ rec' = [rec EXCEPT !.is_shutdown = TRUE]
         /\ ui_pc' = "joining"
         /\ caller' = by
         /\ last_call' = Call("stop", by, "pending")

InitRecording ==
    /\ CamIdle
    /\ named_areas = <<>>
    /\ base_x = None /\ base_y = None /\ reader = None
    /\ batch_sampling_rate = 1 /\ batch_result = None
    /\ RunIdle /\ TrackIdle /\ AggIdle /\ UiIdle
    /\ ClockIdle /\ BboxIdle /\ LegacyIdle /\ PanelIdle

\* The event loop handles CamEvVersion: camera_connected = True
CameraConnects ==
    /\ ~camera_connected
    /\ camera_connected' = TRUE
    /\ UNCHANGED <<active, paused, current_recording_path, recorder, recorder_paused,
                   rec, accepted, ui_pc, caller, last_call, made, live_recorders,
                   next_frame>>
    /\ UNCHANGED <<appVars, runVars, trackVars, aggVars, uiVars, clockVars, bboxVars,
                   legacyVars, panelVars>>

\* on_start_recording up to the point where it returns or waits in
\* Recorder.__init__
OnStartRecording ==
    /\ ui_pc = "idle"
    /\ made < MaxRecorders
    /\ IF ~camera_connected \/ active
       THEN /\ last_call' = Call("start", "handler", "refused")
            /\ UNCHANGED <<rec, accepted, ui_pc, caller, made>>
       ELSE StartRecording("handler")
    /\ UNCHANGED <<camera_connected, active, paused, current_recording_path, recorder,
                   recorder_paused, live_recorders, next_frame>>
    /\ UNCHANGED <<appVars, runVars, trackVars, aggVars, uiVars, clockVars, bboxVars,
                   legacyVars, panelVars>>

\* camera.start_recording called by another caller than the panel
CallStartRecording ==
    /\ ui_pc = "idle"
    /\ made < MaxRecorders
    /\ StartRecording("direct")
    /\ UNCHANGED <<camera_connected, active, paused, current_recording_path, recorder,
                   recorder_paused, live_recorders, next_frame>>
    /\ UNCHANGED <<appVars, runVars, trackVars, aggVars, uiVars, clockVars, bboxVars,
                   legacyVars, panelVars>>

\* Recorder.__init__, line 75: self._frames_queue = queue.Queue(maxsize=2)
AssignFramesQueue ==
    /\ ui_pc = "constructing"
    /\ rec.init_pc = "queue"
    /\ rec' = [rec EXCEPT !.init_pc = "file"]
    /\ UNCHANGED <<camera_connected, active, paused, current_recording_path, recorder,
                   recorder_paused, accepted, ui_pc, caller, last_call, made,
                   live_recorders, next_frame>>
    /\ UNCHANGED <<appVars, runVars, trackVars, aggVars, uiVars, clockVars, bboxVars,
                   legacyVars, panelVars>>

\* Recorder.__init__, line 77: self._file = zstd.open(dest_path, "wb"), which
\* may raise OSError out of the constructor, start_recording and the handler
OpenFile ==
    /\ ui_pc = "constructing"
    /\ rec.init_pc = "file"
    /\ \E opened \in BOOLEAN :
          IF opened
          THEN /\ rec' = [rec EXCEPT !.init_pc = "lock"]
               /\ UNCHANGED <<ui_pc, last_call>>
          ELSE /\ rec' = [rec EXCEPT !.init_pc = "failed"]
               /\ ui_pc' = "idle"
               /\ last_call' = [last_call EXCEPT !.outcome = "OSError"]
    /\ UNCHANGED <<camera_connected, active, paused, current_recording_path, recorder,
                   recorder_paused, accepted, caller, made, live_recorders,
                   next_frame>>
    /\ UNCHANGED <<appVars, runVars, trackVars, aggVars, uiVars, clockVars, bboxVars,
                   legacyVars, panelVars>>

\* Recorder.__init__, line 78, self._recorder = Recorder(...), and, for the
\* handler, lines 377-383
FinishStart ==
    /\ ui_pc = "constructing"
    /\ rec.init_pc = "lock"
    /\ rec' = [rec EXCEPT !.init_pc = "done"]
    /\ recorder' = Some(rec.serial)
    /\ live_recorders' = live_recorders + 1
    /\ IF caller = "handler"
       THEN /\ current_recording_path' = Some(rec.dest_path)
            /\ active' = TRUE
            /\ paused' = FALSE
       ELSE UNCHANGED <<current_recording_path, active, paused>>
    /\ ui_pc' = "idle"
    /\ last_call' = [last_call EXCEPT !.outcome = "ok"]
    /\ UNCHANGED <<camera_connected, recorder_paused, accepted, caller, made,
                   next_frame>>
    /\ UNCHANGED <<appVars, runVars, trackVars, aggVars, uiVars, clockVars, bboxVars,
                   legacyVars, panelVars>>

\* on_pause_recording
OnPauseRecording ==
    /\ ui_pc = "idle"
    /\ IF ~active
       THEN /\ last_call' = Call("pause", "handler", "refused")
            /\ UNCHANGED <<paused, recorder_paused>>
       ELSE /\ paused' = ~paused
            /\ recorder_paused' = ~paused
            /\ last_call' = Call("pause", "handler", "ok")
    /\ UNCHANGED <<camera_connected, active, current_recording_path, recorder, rec,
                   accepted, ui_pc, caller, made, live_recorders, next_frame>>
    /\ UNCHANGED <<appVars, runVars, trackVars, aggVars, uiVars, clockVars, bboxVars,
                   legacyVars, panelVars>>

\* on_stop_recording up to the point where it returns or waits in
\* self._thread.join()
OnStopRecording ==
    /\ ui_pc = "idle"
    /\ IF ~active
       THEN /\ last_call' = Call("stop", "handler", "refused")
            /\ UNCHANGED <<rec, ui_pc, caller>>
       ELSE StopRecording("handler")
    /\ UNCHANGED <<camera_connected, active, paused, current_recording_path, recorder,
                   recorder_paused, accepted, made, live_recorders, next_frame>>
    /\ UNCHANGED <<appVars, runVars, trackVars, aggVars, uiVars, clockVars, bboxVars,
                   legacyVars, panelVars>>

\* camera.stop_recording called by another caller than the panel
CallStopRecording ==
    /\ ui_pc = "idle"
    /\ StopRecording("direct")
    /\ UNCHANGED <<camera_connected, active, paused, current_recording_path, recorder,
                   recorder_paused, accepted, made, live_recorders, next_frame>>
    /\ UNCHANGED <<appVars, runVars, trackVars, aggVars, uiVars, clockVars, bboxVars,
                   legacyVars, panelVars>>

\* self._thread.join() returns once the writer thread has terminated; then
\* self._file.close(), self._recorder = None and, for the handler, lines
\* 416-423
FinishStop ==
    /\ ui_pc = "joining"
    /\ rec.thread # "running"
    /\ rec' = [rec EXCEPT !.file_closed = TRUE]
    /\ recorder' = None
    /\ live_recorders' = live_recorders - 1
    /\ IF caller = "handler"
       THEN /\ active' = FALSE
            /\ paused' = FALSE
            /\ current_recording_path' = None
       ELSE UNCHANGED <<active, paused, current_recording_path>>
    /\ ui_pc' = "idle"
    /\ last_call' = [last_call EXCEPT !.outcome = "ok"]
    /\ UNCHANGED <<camera_connected, recorder_paused, accepted, caller, made,
                   next_frame>>
    /\ UNCHANGED <<appVars, runVars, trackVars, aggVars, uiVars, clockVars, bboxVars,
                   legacyVars, panelVars>>

\* One turn of the loop of Recorder._thread_body: get(block=False), or the
\* writes of the frame it got.  A read of an attribute the constructor has
\* not assigned yet raises AttributeError; an empty queue raises queue.Empty,
\* or queue.ShutDown once it is shut down.  Only ShutDown is caught.
WriterStep ==
    /\ rec # None
    /\ rec.thread = "running"
    /\ rec' =
          IF rec.frame # None
          THEN IF LockAssigned(rec) /\ FileAssigned(rec)
               THEN [rec EXCEPT !.file = @ \o << <<"ts", rec.frame[1]>>,
                                                 <<"data", rec.frame[1]>> >>,
                                !.frame_count = @ + 1,
                                !.frame = None]
               ELSE [rec EXCEPT !.thread = "AttributeError"]
          ELSE IF ~QueueAssigned(rec)
          THEN [rec EXCEPT !.thread = "AttributeError"]
          ELSE IF rec.frames_queue = <<>>
          THEN [rec EXCEPT !.thread = IF rec.is_shutdown THEN "ShutDown" ELSE "Empty"]
          ELSE [rec EXCEPT !.frame = Some(Head(rec.frames_queue)),
                           !.frames_queue = Tail(rec.frames_queue)]
    /\ UNCHANGED <<camera_connected, active, paused, current_recording_path, recorder,
                   recorder_paused, accepted, ui_pc, caller, last_call, made,
                   live_recorders, next_frame>>
    /\ UNCHANGED <<appVars, runVars, trackVars, aggVars, uiVars, clockVars, bboxVars,
                   legacyVars, panelVars>>

\* One frame of _camera_thread_body, lines 203-216: with the lock held, the
\* frame goes to Recorder.on_frame if a recorder is set and not paused;
\* on_frame returns early within the frame period, drops the frame when the
\* queue is full, and puts it on the queue otherwise.
CameraFrame ==
    /\ ui_pc = "idle"
    /\ next_frame <= MaxCamFrames
    /\ next_frame' = next_frame + 1
    /\ IF recorder # None /\ ~recorder_paused
       THEN \E too_soon \in BOOLEAN :
               IF too_soon \/ Len(rec.frames_queue) >= QueueMaxSize
               THEN UNCHANGED <<rec, accepted>>
               ELSE /\ rec' = [rec EXCEPT !.frames_queue = Append(@, next_frame)]
                    /\ accepted' = Append(accepted, next_frame)
       ELSE UNCHANGED <<rec, accepted>>
    /\ UNCHANGED <<camera_connected, active, paused, current_recording_path, recorder,
                   recorder_paused, ui_pc, caller, last_call, made, live_recorders>>
    /\ UNCHANGED <<appVars, runVars, trackVars, aggVars, uiVars, clockVars, bboxVars,
                   legacyVars, panelVars>>

NextRecording ==
    \/ CameraConnects
    \/ OnStartRecording
    \/ CallStartRecording
    \/ AssignFramesQueue
    \/ OpenFile
    \/ FinishStart
    \/ OnPauseRecording
    \/ OnStopRecording
    \/ CallStopRecording
    \/ FinishStop
    \/ WriterStep
    \/ CameraFrame

SpecRecording == InitRecording /\ [][NextRecording]_vars

(***************************************************************************)
(* Properties of the recording controls (checked under SpecRecording).     *)
(***************************************************************************)

\* C26: whenever no handler is running, state.recording.paused equals the
\* camera's _recorder_paused, so a panel that shows an active recording that
\* is not paused has a camera that forwards its frames to the recorder.
C26_PausedFlagsAgree ==
    ui_pc = "idle" =>
        /\ paused = recorder_paused
        /\ (active /\ ~paused /\ recorder # None) => ~recorder_paused

(***************************************************************************)
(* Properties of the Recorder and its writer thread (checked under         *)
(* SpecRecording).                                                         *)
(***************************************************************************)

\* What the file holds once the given frames are written: for each frame
\* its timestamp, then its data.
WrittenFrames(frames) ==
    [i \in 1..(2 * Len(frames)) |->
        IF i % 2 = 1 THEN <<"ts", frames[(i + 1) \div 2]>>
        ELSE <<"data", frames[i \div 2]>>]

\* C27: the file holds the frames on_frame accepted, in the order they were
\* put on the queue, each as its timestamp followed by its data; by the time
\* stop() has returned it holds every one of them; and the writer thread
\* terminates only after the queue was shut down, an empty queue alone does
\* not end it.
C27_AcceptedFramesWritten ==
    rec # None =>
        /\ \E n \in 0..Len(accepted) :
              rec.file = WrittenFrames(SubSeq(accepted, 1, n))
        /\ rec.file_closed => rec.file = WrittenFrames(accepted)
        /\ rec.thread # "running" => rec.is_shutdown

\* C28: in every interleaving of Recorder.__init__ with the writer thread it
\* starts, the thread reads _frames_queue, _file and _stats_lock only after
\* the constructor has assigned them: no read of the thread fails with
\* AttributeError.
C28_WriterReadsAssignedAttributes ==
    rec # None => rec.thread # "AttributeError"

\* C29: a camera holds at most one Recorder; a start_recording that finds a
\* recorder raises ValueError and changes nothing, and so does a
\* stop_recording that finds none; and when a Start or Stop handler has
\* succeeded, state.recording.active is true exactly if the camera holds a
\* recorder.
C29_AtMostOneRecorder ==
    /\ [](live_recorders <= 1 /\ (live_recorders = 1 <=> recorder # None))
    /\ [][/\ (/\ ui_pc = "idle"
              /\ last_call' # last_call
              /\ last_call'.op = "start"
              /\ last_call'.outcome # "refused") =>
                 IF recorder # None
                 THEN /\ last_call'.outcome = "ValueError"
                      /\ UNCHANGED <<recorder, rec, accepted, active, paused,
                                     current_recording_path, live_recorders, made>>
                 ELSE last_call'.outcome = "pending"
          /\ (/\ ui_pc = "idle"
              /\ last_call' # last_call
              /\ last_call'.op = "stop"
              /\ last_call'.outcome # "refused") =>
                 IF recorder = None
                 THEN /\ last_call'.outcome = "ValueError"
                      /\ UNCHANGED <<recorder, rec, accepted, active, paused,
                                     current_recording_path, live_recorders, made>>
                 ELSE last_call'.outcome = "pending"
          /\ (/\ last_call.outcome = "pending"
              /\ last_call'.outcome = "ok"
              /\ last_call'.by = "handler") =>
                 /\ active' <=> recorder' # None
                 /\ active' <=> last_call'.op = "start"]_vars

\* A start_recording by another caller has just raised ValueError while the
\* panel's recording is active and the camera holds its recorder.
C29_Witness ==
    /\ last_call = Call("start", "direct", "ValueError")
    /\ active /\ recorder # None /\ live_recorders = 1

(***************************************************************************)
(* SpecPanel: the recording opened for analysis.  The panel's state is     *)
(* handled as the record [reader, frame_count, frame_index]; a reader is   *)
(* [path, frame_count].  What RecordingReader(target) finds on disk is up  *)
(* to the environment: OSError, an empty recording, or frames.             *)
(***************************************************************************)

MaxIndex == 3

\* What RecordingReader(target) does: raise OSError, or return a reader.
ReaderOutcomes ==
    {[ok |-> FALSE, frame_count |-> 0]}
        \cup {[ok |-> TRUE, frame_count |-> n] : n \in {0, 1, MaxIndex}}

RecordingReader(target, n) == [path |-> target, frame_count |-> n]

PanelState ==
    [reader |-> reader,
     frame_count |-> recording_frame_count,
     frame_index |-> recording_frame_index]

SetPanelState(st) ==
    /\ reader' = st.reader
    /\ recording_frame_count' = st.frame_count
    /\ recording_frame_index' = st.frame_index

\* render_recording_frame(state, index)
render_recording_frame(st, index) ==
    IF st.reader = None THEN st
    ELSE IF st.frame_count <= 0 THEN st
    ELSE [st EXCEPT !.frame_index = Max(0, Min(st.frame_count - 1, index))]

\* close_recording_reader(state)
close_recording_reader(st) ==
    [st EXCEPT !.reader = None, !.frame_count = 0, !.frame_index = 0]

\* open_selected_recording(state) with state.recording.selected_recording_path
\* = target (None or Some(path)) and the given outcome of RecordingReader
open_selected_recording(st, target, outcome) ==
    LET closed == [st EXCEPT !.reader = None]
    IN IF target = None THEN close_recording_reader(closed)
       ELSE IF active /\ current_recording_path = target
       THEN close_recording_reader(closed)
       ELSE IF ~outcome.ok THEN close_recording_reader(closed)
       ELSE IF outcome.frame_count = 0 THEN close_recording_reader(closed)
       ELSE LET opened ==
                   [reader |-> RecordingReader(target[1], outcome.frame_count),
                    frame_count |-> outcome.frame_count,
                    frame_index |-> Max(0, Min(outcome.frame_count - 1,
                                               closed.frame_index))]
            IN render_recording_frame(opened, opened.frame_index)

\* The state after load_settings: "recording_frame_index" is read from the
\* settings file, the selected recording is not.
InitPanel ==
    /\ CamIdle
    /\ reader = None
    /\ recording_frame_count = 0
    /\ recording_frame_index \in 0..MaxIndex
    /\ selected_recording_path = None
    /\ named_areas = <<>>
    /\ base_x = None /\ base_y = None
    /\ batch_sampling_rate = 1 /\ batch_result = None
    /\ RunIdle /\ TrackIdle /\ AggIdle /\ UiIdle
    /\ ClockIdle /\ BboxIdle /\ LegacyIdle

\* refresh_recordings_list.on_select
OnSelect ==
    /\ ui_pc = "idle"
    /\ \E target \in RecordingPaths, outcome \in ReaderOutcomes :
          /\ selected_recording_path' = Some(target)
          /\ SetPanelState(open_selected_recording(
                              [PanelState EXCEPT !.frame_index = 0],
                              Some(target), outcome))
    /\ last_call' = Call("open", "handler", "ok")
    /\ UNCHANGED <<camera_connected, active, paused, current_recording_path, recorder,
                   recorder_paused, rec, accepted, ui_pc, caller, made,
                   live_recorders, next_frame>>
    /\ UNCHANGED <<base_x, base_y, named_areas, batch_sampling_rate, batch_result,
                   runVars, trackVars, aggVars, uiVars, clockVars, bboxVars,
                   legacyVars>>

\* on_recording_frame_change: the slider's callback
OnRecordingFrameChange ==
    /\ ui_pc = "idle"
    /\ \E index \in (-1)..MaxIndex :
          SetPanelState(render_recording_frame(PanelState, index))
    /\ last_call' = Call("render", "handler", "ok")
    /\ UNCHANGED <<camera_connected, active, paused, current_recording_path, recorder,
                   recorder_paused, rec, accepted, ui_pc, caller, made,
                   live_recorders, next_frame, selected_recording_path>>
    /\ UNCHANGED <<base_x, base_y, named_areas, batch_sampling_rate, batch_result,
                   runVars, trackVars, aggVars, uiVars, clockVars, bboxVars,
                   legacyVars>>

\* refresh_recordings_list.on_delete_clicked
OnDeleteClicked ==
    /\ ui_pc = "idle"
    /\ \E target \in RecordingPaths :
          IF active /\ current_recording_path = Some(target)
          THEN /\ last_call' = Call("delete", "handler", "refused")
               /\ UNCHANGED <<reader, recording_frame_count, recording_frame_index,
                              selected_recording_path>>
          ELSE IF selected_recording_path = Some(target)
          THEN /\ selected_recording_path' = None
               /\ SetPanelState(close_recording_reader(PanelState))
               /\ last_call' = Call("close", "handler", "ok")
          ELSE /\ last_call' = Call("delete", "handler", "ok")
               /\ UNCHANGED <<reader, recording_frame_count, recording_frame_index,
                              selected_recording_path>>
    /\ UNCHANGED <<camera_connected, active, paused, current_recording_path, recorder,
                   recorder_paused, rec, accepted, ui_pc, caller, made,
                   live_recorders, next_frame>>
    /\ UNCHANGED <<base_x, base_y, named_areas, batch_sampling_rate, batch_result,
                   runVars, trackVars, aggVars, uiVars, clockVars, bboxVars,
                   legacyVars>>

NextPanel ==
    \/ OnSelect
    \/ OnRecordingFrameChange
    \/ OnDeleteClicked
    \/ CameraConnects
    \/ OnStartRecording
    \/ AssignFramesQueue
    \/ OpenFile
    \/ FinishStart
    \/ OnStopRecording
    \/ FinishStop
    \/ WriterStep

SpecPanel == InitPanel /\ [][NextPanel]_vars

(***************************************************************************)
(* Properties of the opened recording (checked under SpecPanel).           *)
(***************************************************************************)

====
